---- MODULE Spec2Model ----
(***************************************************************************)
(* Thermostat connection lifecycle, polling and command dispatch of the    *)
(* raspberry extension server.                                             *)
(*                                                                         *)
(* Modelled code:                                                          *)
(*   ServerObjects/thermostat_object.py  ThermostatObject                  *)
(*   services/stateFetch.py              syncWithThermostats, stop_*       *)
(*   services/stateFetch.py              disconnectThermostats             *)
(*   flaskUI/thermostat_routes.py        ThermostatRoute.get, post, delete *)
(*   services/utils.py                   format_mac, nextFreeId            *)
(*   configManager/configHandler.py      thermostat registry, DHT callbacks*)
(*   api/services/thermostat_service.py  ThermostatService                 *)
(*   api/models/thermostat.py            state calculator, default record  *)
(*   api/routes/homekit_routes.py        status and command routes         *)
(*                                                                         *)
(* Temperatures are in tenths of a degree Celsius (215 is 21.5 C).         *)
(* The BLE transport (eqiva_thermostat.Thermostat) is an external library: *)
(* each of its calls may succeed or raise BleakError, EqivaException or    *)
(* any other exception.                                                    *)
(***************************************************************************)
EXTENDS Integers, Sequences, FiniteSets, TLC

(* ------------------------------ bounds --------------------------------- *)
\* number of poll cycles the loop may start
MaxCycles == 2

(* ----------------------------- constants ------------------------------- *)
\* ThermostatObject.__init__ defaults
DEFAULT_MIN_TEMPERATURE == 50
DEFAULT_MAX_TEMPERATURE == 300

\* ids of the ThermostatObjects of serverConfig["thermostats"]
Devices == {"1", "2"}
\* request handling threads of the web server
Threads == {"t1"}

None == "None"
NoValve == -1
\* kwargs.get of a keyword that was not passed
NoReading == -1

\* exceptions a transport call may raise
Errors == {"BleakError", "EqivaException", "Exception"}
Outcomes == {"ok"} \cup Errors

\* device-reported mode sets (Mode.to_dict keys that are set)
DeviceModes == {{"AUTO"}, {"MANUAL"}, {"MANUAL", "OFF"}}
ValvePositions == {0, 50}

\* values a client may ask for
TempInputs == {45, 50, 215, 300, 350}
ModeInputs == {"", "0", "1", "2", "3", "4"}

VARIABLES
    thermostats,                \* serverConfig["thermostats"]: id -> ThermostatObject fields
    device,                     \* the physical thermostat behind each transport
    transport,                  \* equiva_thermostat: the status it read last
    poller,                     \* position of syncWithThermostats
    cmd,                        \* position of each request thread
    thermostat_shutdown,        \* _thermostat_shutdown (threading.Event)
    thermostat_shutdown_async,  \* _thermostat_shutdown_async (asyncio.Event)
    now,                        \* wall clock, as stamped by strftime
    registry,                   \* serverConfig["thermostats"]: the dict's entries, in order
    persisted,                  \* what save_config wrote last for "thermostats"
    req,                        \* the registry request each thread handled last
    dht_seen,                   \* ids whose object received a DHT update
    dht_sensor,                 \* serverConfig["dht"]: the DHTObject and its callbacks
    status_store,               \* ThermostatService.status_store: mac -> status
    store_saved,                \* what save_status_store wrote last
    store_sensed,               \* MACs whose record received a sensor update
    svc,                        \* position of a ThermostatService call
    polling,                    \* ThermostatService._polling_loop and its poll tasks
    connected_thermostats,      \* ThermostatService.connected_thermostats
    failed_connections,         \* ThermostatService.failed_connections
    dht_data,                   \* dht_service: latest_temperature, latest_humidity,
                                \* last_logged_dht_temp
    calc,                       \* a call of calculate_heating_cooling_state
    trip,                       \* a device on its way through save_config and load_config
    race,                       \* the positions of two requests handled at once
    cleanup                     \* position of disconnectThermostats

\* the variables of the polling loop and the command methods
thermostatVars == <<thermostats, device, transport, poller, cmd,
                    thermostat_shutdown, thermostat_shutdown_async, now>>
\* the variables of the registry routes
registryVars == <<registry, persisted, req, dht_seen, dht_sensor>>
\* the variables of ThermostatService
serviceVars == <<status_store, store_saved, store_sensed, svc, polling,
                 connected_thermostats, failed_connections, dht_data>>
\* the polling thread of ThermostatService and what it reads
loopVars == <<polling, failed_connections, dht_data>>
\* the variables of a calculator call, of a save and load and of two
\* requests handled at once
calcVars == <<calc, trip, race>>
\* the variables of the shutdown disconnect
cleanupVars == <<cleanup>>
\* what a step of the polling loop or of a command leaves alone
otherVars == <<registryVars, serviceVars, calcVars, cleanupVars>>

vars == <<thermostatVars, otherVars>>

(* ------------------------- string conversions -------------------------- *)
\* A query string is empty, a decimal numeral "<whole>.<tenth>", or other text.
EmptyStr == [kind |-> "empty"]
TextStr  == [kind |-> "text"]
\* str(float)
FloatToStr(x) == [kind |-> "num", whole |-> x \div 10, tenth |-> x % 10]
\* float(str) succeeds on numerals only and raises ValueError otherwise
IsNumeric(s) == s.kind = "num"
StrToFloat(s) == s.whole * 10 + s.tenth
\* "not s" of Python: true of the empty string only
IsEmpty(s) == s.kind = "empty"
\* query strings the route may receive as 'value'
TempQueryInputs == {FloatToStr(x) : x \in TempInputs} \cup {EmptyStr, TextStr}

(* --------------------------- state calculator -------------------------- *)
\* a calculator that looks for MANUAL before AUTO
calculate_heating_cooling_state_ManualFirst(mode, valve) ==
    IF valve # NoValve
    THEN IF "OFF" \in mode \/ valve <= 0
         THEN [int |-> 0, str |-> "Off"]
         ELSE [int |-> 1, str |-> "Heating"]
    ELSE IF "MANUAL" \in mode
         THEN [int |-> 1, str |-> "Manual"]
         ELSE IF "AUTO" \in mode
              THEN [int |-> 3, str |-> "Auto"]
              ELSE [int |-> 0, str |-> "Off"]

calculate_heating_cooling_state(mode, valve) ==
    IF valve # NoValve
    THEN IF "OFF" \in mode \/ valve <= 0
         THEN [int |-> 0, str |-> "Off"]
         ELSE IF valve > 0
              THEN [int |-> 1, str |-> "Heating"]
              ELSE [int |-> 0, str |-> "Off"]
    ELSE IF "AUTO" \in mode
         THEN [int |-> 3, str |-> "Auto"]
         ELSE IF "MANUAL" \in mode
              THEN [int |-> 1, str |-> "Manual"]
              ELSE [int |-> 0, str |-> "Off"]

(* ------------------------------- registry ------------------------------ *)
\* a MAC address is a string: a sequence of characters, cut down here to one
\* letter, the separator and one digit
UpperChar(c) == CASE c = "a" -> "A" [] c = "b" -> "B" [] c = "c" -> "C" [] OTHER -> c
LowerChar(c) == CASE c = "A" -> "a" [] c = "B" -> "b" [] c = "C" -> "c" [] OTHER -> c
\* str.upper, str.lower, str.replace('-', ':')
upper(str) == [i \in DOMAIN str |-> UpperChar(str[i])]
lower(str) == [i \in DOMAIN str |-> LowerChar(str[i])]
replace_dash(str) == [i \in DOMAIN str |-> IF str[i] = "-" THEN ":" ELSE str[i]]
\* services.utils.format_mac
format_mac(mac) == upper(replace_dash(mac))

\* MAC addresses a client may put in the URL
MacInputs == {<<"a", "-", "1">>, <<"A", ":", "1">>, <<"b", ":", "2">>}

\* an entry of the dict, and the place a deleted entry leaves behind
Entry(id, mac) == [id |-> id, mac |-> mac]
Hole == [id |-> None, mac |-> <<>>]

\* the keys of the dict
Keys(reg) == {reg[i].id : i \in DOMAIN reg} \ {None}
\* len(dict)
Size(reg) == Cardinality(Keys(reg))
\* dict[id] = object: an existing key keeps its place, a new key goes last
SetItem(reg, id, mac) ==
    IF id \in Keys(reg)
    THEN [i \in DOMAIN reg |-> IF reg[i].id = id THEN Entry(id, mac) ELSE reg[i]]
    ELSE Append(reg, Entry(id, mac))
\* del dict[id]
DelItem(reg, id) == [i \in DOMAIN reg |-> IF reg[i].id = id THEN Hole ELSE reg[i]]

\* the least element of a non-empty set of numbers
Least(S) == CHOOSE i \in S : \A j \in S : i <= j

\* entries a small dict holds before it is rebuilt without its holes
DictUsable == 5
\* dict[id] = object when the key is new and no place is left
Compact(reg) == SelectSeq(reg, LAMBDA e : e # Hole)
Insert(reg, id, mac) ==
    IF id \notin Keys(reg) /\ Len(reg) >= DictUsable
    THEN SetItem(Compact(reg), id, mac)
    ELSE SetItem(reg, id, mac)

\* find_thermostat: the id of the first entry with that MAC, None without one
find_thermostat(reg, mac) ==
    LET hits == {i \in DOMAIN reg :
                    reg[i] # Hole /\ lower(reg[i].mac) = lower(mac)}
    IN IF hits = {} THEN None ELSE reg[Least(hits)].id

\* str(i) for the ids nextFreeId tries
IdNames == <<"1", "2", "3">>
\* services.utils.nextFreeId
nextFreeId(reg) ==
    LET free == {i \in DOMAIN IdNames : IdNames[i] \notin Keys(reg)}
    IN IF free = {} THEN None ELSE IdNames[Least(free)]

\* JSON bodies of a POST: the keys sent and their values
NoBody ==
    [keys |-> {}, id |-> None, mac |-> <<>>, targetTemperature |-> 0,
     max_temperature |-> 0, targetHeatingCoolingState |-> 0, min_temperature |-> 0,
     currentTemperature |-> 0, currentHeatingCoolingState |-> 0,
     currentRelativeHumidity |-> 0, first_seen |-> 0, failed_connection |-> FALSE]
PostBodies ==
    {NoBody,
     [NoBody EXCEPT !.keys = {"mac"}, !.mac = <<"a", ":", "1">>],
     [NoBody EXCEPT !.keys = {"max_temperature"}, !.max_temperature = 250]}

\* the registry loaded from thermostats.yaml
LoadedRegistry == <<Entry("1", <<"A", ":", "1">>), Entry("2", <<"B", ":", "2">>)>>

(* ------------------------------ initial state -------------------------- *)
\* ThermostatObject.__init__ with data = {"mac", "id"}
NewThermostat ==
    [failed_connection          |-> FALSE,
     targetHeatingCoolingState  |-> 0,
     targetTemperature          |-> 0,
     currentHeatingCoolingState |-> 0,
     currentTemperature         |-> 0,
     currentRelativeHumidity    |-> 0,
     last_updated               |-> None,
     first_seen                 |-> 0,
     DHT_connected              |-> FALSE,
     min_temperature            |-> DEFAULT_MIN_TEMPERATURE,
     max_temperature            |-> DEFAULT_MAX_TEMPERATURE]

\* a Thermostat that has not read a status yet
NoStatus == [mode |-> {}, valve |-> NoValve, temperature |-> 0]

\* pos, used and len are the fields of the dict iterator of the for loop
IdlePoller ==
    [pc |-> "start", pos |-> 0, used |-> 0, len |-> 0, dev |-> None, err |-> "ok",
     cycles |-> 0, connects |-> 0, disconnects |-> 0, session |-> FALSE]

NoResult == [result |-> None, message |-> None]
NoCall == [op |-> None, value |-> 0]

IdleCmd ==
    [pc |-> "idle", dev |-> None, kind |-> None, via |-> None,
     temp |-> EmptyStr, mode |-> "", asked |-> 0,
     result |-> NoResult, connects |-> 0, disconnects |-> 0,
     commands |-> 0, sent |-> NoCall, session |-> FALSE]

\* ThermostatObject.save
save(th, mac) ==
    [mac                        |-> mac,
     targetHeatingCoolingState  |-> th.targetHeatingCoolingState,
     targetTemperature          |-> th.targetTemperature,
     currentHeatingCoolingState |-> th.currentHeatingCoolingState,
     currentTemperature         |-> th.currentTemperature,
     currentRelativeHumidity    |-> th.currentRelativeHumidity,
     first_seen                 |-> th.first_seen,
     min_temperature            |-> th.min_temperature,
     max_temperature            |-> th.max_temperature]

\* save_config(resource = "thermostats"): the file it writes
Persist(reg, objects) ==
    {[id |-> reg[i].id, data |-> save(objects[reg[i].id], reg[i].mac)] :
        i \in {j \in DOMAIN reg : reg[j] # Hole}}

\* no registry request handled yet
NoRequest ==
    [op |-> None, mac |-> <<>>, resource |-> None, code |-> 0,
     found |-> FALSE, id |-> None, changed |-> FALSE]

\* a status record of the service without the key last_updated
NoStamp == -1
\* ThermostatService: a store with no record
NoRecord ==
    [present |-> FALSE, targetHeatingCoolingState |-> 0, targetTemperature |-> 0,
     currentHeatingCoolingState |-> 0, currentTemperature |-> 0,
     currentRelativeHumidity |-> 0, last_updated |-> NoStamp]
\* the keys status_store may get
ServiceMacs == {format_mac(x) : x \in MacInputs}
EmptyStore == [m \in ServiceMacs |-> NoRecord]
\* api.models.thermostat.create_default_thermostat_status
create_default_thermostat_status ==
    [present |-> TRUE, targetHeatingCoolingState |-> 0, targetTemperature |-> 200,
     currentHeatingCoolingState |-> 0, currentTemperature |-> 200,
     currentRelativeHumidity |-> 50, last_updated |-> NoStamp]
\* no call of the service in progress
IdleSvc ==
    [pc |-> "idle", op |-> None, mac |-> <<>>, temp |-> EmptyStr, mode |-> "",
     result |-> NoResult, raised |-> None, humidity |-> FALSE,
     connects |-> 0, disconnects |-> 0, commands |-> 0, teardown |-> None]

\* a poll_status coroutine of the service that was not created
IdleTask == [pc |-> "none", read |-> NoStatus, err |-> "ok", raised |-> None]
\* _polling_loop before its first cycle
IdlePolling ==
    [pc |-> "loop", cycles |-> 0, tasks |-> [m \in ServiceMacs |-> IdleTask]]
\* DHTService.__init__: no reading yet
NoDhtData ==
    [temperature |-> NoReading, humidity |-> NoReading,
     last_logged_dht_temp |-> NoReading]

\* serverConfig["dht"] after load_config with a dht.yaml: the DHTObject with
\* the callbacks _setup_dht_callbacks registered
\* the callbacks _setup_dht_callbacks registered. raw_temperature is the value
\* the last read got from the device, notified tells whether that read called
\* the temperature callbacks, last_notified is the value they were called with
LoadedDht == [present |-> TRUE, callbacks |-> TRUE,
              latest_temperature |-> NoReading, latest_humidity |-> NoReading,
              last_logged_dht_temp |-> NoReading,
              last_logged_dht_humidity |-> NoReading,
              raw_temperature |-> NoReading, notified |-> FALSE,
              last_notified |-> NoReading]
\* serverConfig["dht"] after load_config without a dht.yaml
NoDht == [LoadedDht EXCEPT !.present = FALSE, !.callbacks = FALSE]

\* no calculator call made yet
NoCalc == [pc |-> "idle", mode |-> {}, valve |-> NoValve,
           result |-> [int |-> 0, str |-> "Off"]]

\* disconnectThermostats / cleanup_thermostats not called yet; hung holds the
\* devices whose transport never returns from disconnect
IdleCleanup ==
    [pc |-> "idle", via |-> None, tasks |-> [d \in Devices |-> "none"],
     hung |-> {}]

\* the polling loop and the request threads before their first step
ThermostatInit ==
    /\ thermostats = [d \in Devices |-> NewThermostat]
    /\ device \in [Devices -> [mode : {{"AUTO"}}, valve : {0}, temperature : {200}]]
    /\ transport = [d \in Devices |-> NoStatus]
    /\ poller = IdlePoller
    /\ cmd = [t \in Threads |-> IdleCmd]
    /\ thermostat_shutdown = FALSE
    /\ thermostat_shutdown_async = FALSE
    /\ now = 0

\* the registry as _load_thermostats leaves it
RegistryLoaded ==
    /\ registry = LoadedRegistry
    /\ persisted = Persist(LoadedRegistry, [d \in Devices |-> NewThermostat])
    /\ req = [t \in Threads |-> NoRequest]
    /\ dht_seen = {}
    /\ dht_sensor = LoadedDht

\* ThermostatService with an empty status file
ServiceIdle ==
    /\ status_store = EmptyStore
    /\ store_saved = EmptyStore
    /\ store_sensed = {}
    /\ svc = IdleSvc
    /\ polling = IdlePolling
    /\ connected_thermostats = {}
    /\ failed_connections = {}
    /\ dht_data = NoDhtData

\* no device saved or loaded
NoTrip ==
    [pc |-> "idle", id |-> None, mac |-> <<>>, object |-> NewThermostat,
     file |-> {},
     loaded |-> [present |-> FALSE, id |-> None, mac |-> <<>>,
                 object |-> NewThermostat]]

\* the requests handled at once
Requests == {"r1", "r2"}
\* no request of the two has come in
NoRace == [r \in Requests |-> [pc |-> "none", mac |-> <<>>, id |-> None, code |-> 0]]

CalcIdle == calc = NoCalc /\ trip = NoTrip /\ race = NoRace

CleanupIdle == cleanup = IdleCleanup

Init ==
    /\ ThermostatInit
    /\ RegistryLoaded
    /\ ServiceIdle
    /\ CalcIdle
    /\ CleanupIdle

\* ThermostatObject.get_status
get_status(th) ==
    IF th.DHT_connected
    THEN [targetHeatingCoolingState  |-> th.targetHeatingCoolingState,
          targetTemperature          |-> th.targetTemperature,
          currentHeatingCoolingState |-> th.currentHeatingCoolingState,
          currentTemperature         |-> th.currentTemperature,
          currentRelativeHumidity    |-> th.currentRelativeHumidity]
    ELSE [targetHeatingCoolingState  |-> th.targetHeatingCoolingState,
          targetTemperature          |-> th.targetTemperature,
          currentHeatingCoolingState |-> th.currentHeatingCoolingState,
          currentTemperature         |-> th.targetTemperature]

(* ----------------------------- BLE transport -------------------------- *)
\* a safe_connect that forgets the states of a device it cannot reach
safe_connect_Resets(th, outcome) ==
    IF outcome = "ok"
    THEN [th EXCEPT !.failed_connection = FALSE]
    ELSE [th EXCEPT !.failed_connection = TRUE,
                    !.targetHeatingCoolingState = 0,
                    !.currentHeatingCoolingState = 0]

\* ThermostatObject.safe_connect: the flag after the transport's connect
safe_connect(th, outcome) ==
    IF outcome = "ok"
    THEN [th EXCEPT !.failed_connection = FALSE]
    ELSE [th EXCEPT !.failed_connection = TRUE]

\* what the device does on a successful command
DeviceAfter(dv, call) ==
    CASE call.op = "setTemperature"    -> [dv EXCEPT !.temperature = call.value]
      [] call.op = "setTemperatureOff" -> [dv EXCEPT !.mode = {"MANUAL", "OFF"}]
      [] call.op = "setModeManual"     -> [dv EXCEPT !.mode = {"MANUAL"}]
      [] call.op = "setModeAuto"       -> [dv EXCEPT !.mode = {"AUTO"}]
      [] OTHER                         -> dv

\* the valve of a device moves on its own
valve_moves(d) ==
    /\ \E v \in ValvePositions :
          /\ v # device[d].valve
          /\ device' = [device EXCEPT ![d].valve = v]
    /\ UNCHANGED <<otherVars, thermostats, transport, poller, cmd, thermostat_shutdown,
                   thermostat_shutdown_async, now>>

(* ------------------------------ polling loop --------------------------- *)
\* serverConfig["config"]["thermostats"]["enabled"]
ThermostatsEnabled == TRUE

\* a loop that never looks at the shutdown event
ShutdownRequested_Ignored == FALSE

\* _thermostat_shutdown.is_set()
ShutdownRequested == thermostat_shutdown

\* the except clauses of syncWithThermostats around poll_status
SyncCatches(err) == err \in {"BleakError", "EqivaException"}

ensure_async_event_loop ==
    /\ poller.pc = "start"
    /\ thermostat_shutdown_async' = FALSE
    /\ poller' = [poller EXCEPT !.pc = "while"]
    /\ UNCHANGED <<otherVars, thermostats, device, transport, cmd, thermostat_shutdown, now>>

\* the places of the dict the iterator has not passed that hold a device
Ahead(reg, pos) == {i \in DOMAIN reg : i > pos /\ reg[i] # Hole}

\* the while condition; the for statement makes an iterator of the dict's values
sync_while ==
    /\ poller.pc = "while"
    /\ IF ThermostatsEnabled /\ ~ShutdownRequested
       THEN /\ poller.cycles < MaxCycles
            /\ poller' = [poller EXCEPT !.pc = "for", !.pos = 0,
                                        !.used = Size(registry),
                                        !.len = Size(registry),
                                        !.cycles = @ + 1]
       ELSE poller' = [poller EXCEPT !.pc = "done"]
    /\ UNCHANGED <<otherVars, thermostats, device, transport, cmd, thermostat_shutdown,
                   thermostat_shutdown_async, now>>

\* the iterator's next(): RuntimeError when the dict changed its size or holds
\* more values than the iterator expects; then the shutdown test of the body
sync_for ==
    /\ poller.pc = "for"
    /\ IF Size(registry) # poller.used
       THEN poller' = [poller EXCEPT !.pc = "crashed", !.err = "RuntimeError"]
       ELSE IF Ahead(registry, poller.pos) = {}
       THEN poller' = [poller EXCEPT !.pc = "sleep"]
       ELSE IF poller.len = 0
       THEN poller' = [poller EXCEPT !.pc = "crashed", !.err = "RuntimeError"]
       ELSE IF ShutdownRequested
       THEN poller' = [poller EXCEPT !.pc = "sleep"]
       ELSE LET i == Least(Ahead(registry, poller.pos))
            IN poller' = [poller EXCEPT !.pc = "connect", !.dev = registry[i].id,
                                        !.pos = i, !.len = @ - 1,
                                        !.err = "ok", !.connects = 0,
                                        !.disconnects = 0]
    /\ UNCHANGED <<otherVars, thermostats, device, transport, cmd, thermostat_shutdown,
                   thermostat_shutdown_async, now>>

\* a poll that asks for the status whatever its connect did
poll_connect_Unchecked ==
    /\ poller.pc = "connect"
    /\ \E outcome \in Outcomes :
          /\ thermostats' = [thermostats EXCEPT
                                ![poller.dev] = safe_connect(@, outcome)]
          /\ poller' = [poller EXCEPT
                          !.connects = @ + 1,
                          !.session = (outcome = "ok"),
                          !.err = outcome,
                          !.pc = "status"]
    /\ UNCHANGED <<otherVars, device, transport, cmd, thermostat_shutdown,
                   thermostat_shutdown_async, now>>

\* poll_status: safe_connect, and on failure the except clause of poll_status
poll_connect ==
    /\ poller.pc = "connect"
    /\ \E outcome \in Outcomes :
          /\ thermostats' = [thermostats EXCEPT
                                ![poller.dev] = safe_connect(@, outcome)]
          /\ poller' = [poller EXCEPT
                          !.connects = @ + 1,
                          !.session = (outcome = "ok"),
                          !.err = outcome,
                          !.pc = IF outcome = "ok" THEN "status" ELSE "finally"]
    /\ UNCHANGED <<otherVars, device, transport, cmd, thermostat_shutdown,
                   thermostat_shutdown_async, now>>

\* the fields poll_status writes from a status reading
PolledStatus(th, dv, stamp) ==
    [th EXCEPT
       !.targetHeatingCoolingState =
           calculate_heating_cooling_state(dv.mode, NoValve).int,
       !.targetTemperature = dv.temperature,
       !.currentHeatingCoolingState =
           calculate_heating_cooling_state(dv.mode, dv.valve).int,
       !.last_updated = stamp]

\* a poll that puts its device into the saved file when it has read the status
poll_request_status_Saves ==
    /\ poller.pc = "status"
    /\ \E outcome \in Outcomes :
          /\ thermostats' = [thermostats EXCEPT ![poller.dev] =
                IF outcome = "ok"
                THEN PolledStatus(@, device[poller.dev], now)
                ELSE [@ EXCEPT !.failed_connection = TRUE]]
          /\ transport' = IF outcome = "ok"
                           THEN [transport EXCEPT ![poller.dev] = device[poller.dev]]
                           ELSE transport
          /\ persisted' = IF outcome = "ok"
                           THEN Persist(registry, thermostats') \cup
                                {[id |-> poller.dev,
                                  data |-> save(thermostats'[poller.dev], <<>>)]}
                           ELSE persisted
          /\ poller' = [poller EXCEPT !.err = outcome, !.pc = "finally"]
    /\ UNCHANGED <<registry, req, dht_seen, dht_sensor, serviceVars, calcVars,
                   cleanupVars, device, cmd, thermostat_shutdown,
                   thermostat_shutdown_async, now>>

\* poll_status: requestStatus and the update of the object
poll_request_status ==
    /\ poller.pc = "status"
    /\ \E outcome \in Outcomes :
          /\ thermostats' = [thermostats EXCEPT ![poller.dev] =
                IF outcome = "ok"
                THEN PolledStatus(@, device[poller.dev], now)
                ELSE [@ EXCEPT !.failed_connection = TRUE]]
          /\ transport' = IF outcome = "ok"
                           THEN [transport EXCEPT ![poller.dev] = device[poller.dev]]
                           ELSE transport
          /\ poller' = [poller EXCEPT !.err = outcome, !.pc = "finally"]
    /\ UNCHANGED <<otherVars, device, cmd, thermostat_shutdown,
                   thermostat_shutdown_async, now>>

\* poll_status: the finally clause, then the try/except of syncWithThermostats
poll_finally ==
    /\ poller.pc = "finally"
    /\ poller' = [poller EXCEPT !.disconnects = @ + 1, !.session = FALSE,
                                !.pc = "sync_finally"]
    /\ thermostats' = [thermostats EXCEPT ![poller.dev].failed_connection =
          IF poller.err = "ok" THEN FALSE
          ELSE IF SyncCatches(poller.err) THEN TRUE
          ELSE @]
    /\ UNCHANGED <<otherVars, device, transport, cmd, thermostat_shutdown,
                   thermostat_shutdown_async, now>>

\* syncWithThermostats: the finally clause of the loop body
sync_finally ==
    /\ poller.pc = "sync_finally"
    /\ poller' = IF poller.err = "ok" \/ SyncCatches(poller.err)
                 THEN [poller EXCEPT !.disconnects = @ + 1, !.pc = "for"]
                 ELSE [poller EXCEPT !.disconnects = @ + 1, !.pc = "crashed"]
    /\ UNCHANGED <<otherVars, thermostats, device, transport, cmd, thermostat_shutdown,
                   thermostat_shutdown_async, now>>

\* wait_for(_thermostat_shutdown_async.wait(), timeout): the timeout elapses
sleep_timeout ==
    /\ poller.pc = "sleep"
    /\ ~thermostat_shutdown_async
    /\ poller' = [poller EXCEPT !.pc = "while"]
    /\ now' = now + 1
    /\ UNCHANGED <<otherVars, thermostats, device, transport, cmd, thermostat_shutdown,
                   thermostat_shutdown_async>>

\* wait_for(_thermostat_shutdown_async.wait(), timeout): the event is set
sleep_wake ==
    /\ poller.pc = "sleep"
    /\ thermostat_shutdown_async
    /\ poller' = [poller EXCEPT !.pc = "done"]
    /\ UNCHANGED <<otherVars, thermostats, device, transport, cmd, thermostat_shutdown,
                   thermostat_shutdown_async, now>>

(* -------------------------------- shutdown ----------------------------- *)
\* asyncio.get_running_loop() in the calling thread: the event is set only
\* when the caller runs inside an event loop
SetAsyncEvent(callerHasLoop) ==
    IF callerHasLoop THEN TRUE ELSE thermostat_shutdown_async

stop_thermostat_service ==
    /\ thermostat_shutdown' = TRUE
    /\ \E callerHasLoop \in BOOLEAN :
          thermostat_shutdown_async' = SetAsyncEvent(callerHasLoop)
    /\ UNCHANGED <<otherVars, thermostats, device, transport, poller, cmd, now>>

stop_all_services ==
    /\ thermostat_shutdown' = TRUE
    /\ \E callerHasLoop \in BOOLEAN :
          thermostat_shutdown_async' = SetAsyncEvent(callerHasLoop)
    /\ UNCHANGED <<otherVars, thermostats, device, transport, poller, cmd, now>>

(* --------------------------- command dispatch -------------------------- *)
Error(msg) == [result |-> "error", message |-> msg]
Ok == [result |-> "ok", message |-> None]

\* a range check that forgets the upper bound
TemperatureInRange_NoUpper(th, temperature) ==
    th.min_temperature <= temperature

\* ThermostatRoute.get, targetTemperature: the range check of the route
TemperatureInRange(th, temperature) ==
    th.min_temperature <= temperature /\ temperature <= th.max_temperature

\* ThermostatRoute.get, targetHeatingCoolingState: the values the route lets through
RouteModes == {"0", "1", "2", "3"}

\* the transport call set_mode makes for a mode string, None for no call
ModeCall(mode) ==
    CASE mode = "0"          -> "setTemperatureOff"
      [] mode \in {"1", "2"} -> "setModeManual"
      [] mode = "3"          -> "setModeAuto"
      [] OTHER               -> None

\* the targetHeatingCoolingState a mode string stands for
RequestedState(mode) ==
    IF mode = "3" THEN 3 ELSE IF mode \in {"1", "2"} THEN 1 ELSE 0

\* the result a command returns for an exception of the transport
CommandError(err) ==
    CASE err = "BleakError"     -> Error("Device was not found")
      [] err = "EqivaException" -> Error("EqivaException")
      [] OTHER                  -> Error("Connection failed")

\* set_temperature(temp) is entered by thread t for device d
enter_set_temperature(t, d, temp, via, asked) ==
    cmd' = [cmd EXCEPT ![t] =
        IF IsEmpty(temp)
        THEN [IdleCmd EXCEPT !.pc = "done", !.dev = d, !.kind = "temperature",
                             !.via = via, !.temp = temp, !.asked = asked,
                             !.result = Error("Temperature value is required")]
        ELSE [IdleCmd EXCEPT !.pc = "connect", !.dev = d, !.kind = "temperature",
                             !.via = via, !.temp = temp, !.asked = asked]]

\* set_mode(mode) is entered by thread t for device d
enter_set_mode(t, d, mode, via) ==
    cmd' = [cmd EXCEPT ![t] =
        IF mode = ""
        THEN [IdleCmd EXCEPT !.pc = "done", !.dev = d, !.kind = "mode",
                             !.via = via, !.mode = mode,
                             !.result = Error("Mode value is required")]
        ELSE [IdleCmd EXCEPT !.pc = "connect", !.dev = d, !.kind = "mode",
                             !.via = via, !.mode = mode]]

\* a request is answered by the route without calling the object
route_rejects(t, d, kind, temp, mode, msg) ==
    cmd' = [cmd EXCEPT ![t] =
        [IdleCmd EXCEPT !.pc = "done", !.dev = d, !.kind = kind, !.via = "route",
                        !.temp = temp, !.mode = mode,
                        !.asked = IF IsNumeric(temp) THEN StrToFloat(temp) ELSE 0,
                        !.result = Error(msg)]]

\* ThermostatRoute.get, resource targetTemperature, for the object th of id d
answer_targetTemperature(t, d, th, temp_value) ==
    IF IsEmpty(temp_value)
    THEN route_rejects(t, d, "temperature", temp_value, "",
                       "Temperature value is required")
    ELSE IF ~IsNumeric(temp_value)
    THEN route_rejects(t, d, "temperature", temp_value, "",
                       "Invalid temperature value")
    ELSE IF ~TemperatureInRange(th, StrToFloat(temp_value))
    THEN route_rejects(t, d, "temperature", temp_value, "",
                       "Temperature must be between")
    ELSE enter_set_temperature(t, d, FloatToStr(StrToFloat(temp_value)),
                               "route", StrToFloat(temp_value))

\* ThermostatRoute.get, resource targetHeatingCoolingState, for id d
answer_targetHeatingCoolingState(t, d, mode_value) ==
    IF mode_value = ""
    THEN route_rejects(t, d, "mode", EmptyStr, mode_value,
                       "Mode value is required")
    ELSE IF mode_value \notin RouteModes
    THEN route_rejects(t, d, "mode", EmptyStr, mode_value, "Mode must be")
    ELSE enter_set_mode(t, d, mode_value, "route")

\* GET /<mac>/targetTemperature?value=<temp_value> for a registered device
route_targetTemperature(t, d, temp_value) ==
    /\ cmd[t].pc = "idle"
    /\ answer_targetTemperature(t, d, thermostats[d], temp_value)
    /\ UNCHANGED <<otherVars, thermostats, device, transport, poller, thermostat_shutdown,
                   thermostat_shutdown_async, now>>

\* GET /<mac>/targetHeatingCoolingState?value=<mode_value> for a registered device
route_targetHeatingCoolingState(t, d, mode_value) ==
    /\ cmd[t].pc = "idle"
    /\ answer_targetHeatingCoolingState(t, d, mode_value)
    /\ UNCHANGED <<otherVars, thermostats, device, transport, poller, thermostat_shutdown,
                   thermostat_shutdown_async, now>>

\* ThermostatObject.set_temperature called with any string
call_set_temperature(t, d, temp) ==
    /\ cmd[t].pc = "idle"
    /\ enter_set_temperature(t, d, temp, "call",
                             IF IsNumeric(temp) THEN StrToFloat(temp) ELSE 0)
    /\ UNCHANGED <<otherVars, thermostats, device, transport, poller, thermostat_shutdown,
                   thermostat_shutdown_async, now>>

\* ThermostatObject.set_mode called with any string
call_set_mode(t, d, mode) ==
    /\ cmd[t].pc = "idle"
    /\ enter_set_mode(t, d, mode, "call")
    /\ UNCHANGED <<otherVars, thermostats, device, transport, poller, thermostat_shutdown,
                   thermostat_shutdown_async, now>>

\* a connect that waits until the poller has closed its session
command_connect_Serialized(t) ==
    /\ cmd[t].pc = "connect"
    /\ ~poller.session
    /\ \E outcome \in Outcomes :
          /\ thermostats' = [thermostats EXCEPT
                                ![cmd[t].dev] = safe_connect(@, outcome)]
          /\ cmd' = [cmd EXCEPT ![t] =
                [@ EXCEPT !.connects = @ + 1,
                          !.session = (outcome = "ok"),
                          !.pc = IF outcome = "ok" THEN "execute" ELSE "finally",
                          !.result = IF outcome = "ok" THEN @
                                     ELSE CommandError(outcome)]]
    /\ UNCHANGED <<otherVars, device, transport, poller, thermostat_shutdown,
                   thermostat_shutdown_async, now>>

\* set_temperature / set_mode: safe_connect and the except clauses
command_connect(t) ==
    /\ cmd[t].pc = "connect"
    /\ \E outcome \in Outcomes :
          /\ thermostats' = [thermostats EXCEPT
                                ![cmd[t].dev] = safe_connect(@, outcome)]
          /\ cmd' = [cmd EXCEPT ![t] =
                [@ EXCEPT !.connects = @ + 1,
                          !.session = (outcome = "ok"),
                          !.pc = IF outcome = "ok" THEN "execute" ELSE "finally",
                          !.result = IF outcome = "ok" THEN @
                                     ELSE CommandError(outcome)]]
    /\ UNCHANGED <<otherVars, device, transport, poller, thermostat_shutdown,
                   thermostat_shutdown_async, now>>

\* the transport call of a command, None when the command makes none
CommandCall(c) ==
    IF c.kind = "temperature"
    THEN IF IsNumeric(c.temp)
         THEN [op |-> "setTemperature", value |-> StrToFloat(c.temp)]
         ELSE NoCall
    ELSE [op |-> ModeCall(c.mode), value |-> 0]

\* the result of a command that made no transport call after its connect
CommandRefusal(c) ==
    IF c.kind = "temperature"
    THEN Error("Invalid temperature value")
    ELSE Error("Invalid mode value")

\* set_temperature / set_mode: the statements between connect and finally
command_execute(t) ==
    /\ cmd[t].pc = "execute"
    /\ LET c == cmd[t]
           call == CommandCall(c)
       IN IF call.op = None
          THEN /\ cmd' = [cmd EXCEPT ![t] =
                     [@ EXCEPT !.pc = "finally", !.result = CommandRefusal(c)]]
               /\ UNCHANGED <<thermostats, device>>
          ELSE \E outcome \in Outcomes :
                 /\ cmd' = [cmd EXCEPT ![t] =
                       [@ EXCEPT !.pc = "finally", !.commands = @ + 1,
                                 !.sent = call,
                                 !.result = IF outcome = "ok" THEN Ok
                                            ELSE CommandError(outcome)]]
                 /\ device' = IF outcome = "ok"
                              THEN [device EXCEPT ![c.dev] = DeviceAfter(@, call)]
                              ELSE device
                 /\ thermostats' = IF outcome = "ok" THEN thermostats
                                   ELSE [thermostats EXCEPT
                                           ![c.dev].failed_connection = TRUE]
    /\ UNCHANGED <<otherVars, transport, poller, thermostat_shutdown,
                   thermostat_shutdown_async, now>>

\* set_temperature / set_mode: the finally clause
command_finally(t) ==
    /\ cmd[t].pc = "finally"
    /\ cmd' = [cmd EXCEPT ![t] =
          [@ EXCEPT !.disconnects = @ + 1, !.session = FALSE, !.pc = "done"]]
    /\ UNCHANGED <<otherVars, thermostats, device, transport, poller, thermostat_shutdown,
                   thermostat_shutdown_async, now>>

\* the request thread has answered and takes the next request
command_return(t) ==
    /\ cmd[t].pc = "done"
    /\ cmd' = [cmd EXCEPT ![t] = IdleCmd]
    /\ UNCHANGED <<otherVars, thermostats, device, transport, poller, thermostat_shutdown,
                   thermostat_shutdown_async, now>>

(* ---------------------------- registry routes -------------------------- *)
\* ThermostatObject(data) for data = {"mac", "id"} updated with a POST body
ThermostatObject(postDict) ==
    [NewThermostat EXCEPT
       !.first_seen = now,
       !.targetTemperature = IF "targetTemperature" \in postDict.keys
                             THEN postDict.targetTemperature ELSE @,
       !.max_temperature = IF "max_temperature" \in postDict.keys
                           THEN postDict.max_temperature ELSE @]

\* create_thermostat: ValueError for a MAC that find_thermostat finds, else the
\* new object with its id and the MAC its data ends up with
create_thermostat(reg, mac, postDict) ==
    IF find_thermostat(reg, mac) # None
    THEN [error |-> "ValueError", id |-> None, mac |-> mac,
          object |-> NewThermostat]
    ELSE [error |-> None,
          id |-> IF "id" \in postDict.keys THEN postDict.id ELSE nextFreeId(reg),
          mac |-> IF "mac" \in postDict.keys THEN postDict.mac ELSE mac,
          object |-> ThermostatObject(postDict)]

\* an operation of the polling loop holds the object of id
Held(id) ==
    poller.dev = id /\ poller.pc \in {"connect", "status", "finally", "sync_finally"}

\* the part of the server state a new object at id replaces; the model keeps
\* one object per id, so the id of an object in use is not given out again
Registered(made) ==
    /\ ~Held(made.id)
    /\ registry' = Insert(registry, made.id, made.mac)
    /\ thermostats' = [thermostats EXCEPT ![made.id] = made.object]
    /\ transport' = [transport EXCEPT ![made.id] = NoStatus]
    /\ dht_seen' = dht_seen \ {made.id}
    /\ persisted' = Persist(registry', thermostats')

\* what a GET may ask for: the resource and its 'value'
ReadInputs ==
    {[resource |-> None, temp |-> EmptyStr, mode |-> ""],
     [resource |-> "status", temp |-> EmptyStr, mode |-> ""],
     [resource |-> "other", temp |-> EmptyStr, mode |-> ""]}
CommandInputs ==
    {[resource |-> "targetTemperature", temp |-> FloatToStr(215), mode |-> ""],
     [resource |-> "targetHeatingCoolingState", temp |-> EmptyStr, mode |-> "3"]}

\* the status code of a GET; a command resource is answered when the command returns
GetCode(resource) ==
    CASE resource \in {None, "status"} -> 200
      [] resource \in {"targetTemperature", "targetHeatingCoolingState"} -> 0
      [] OTHER -> 404

\* ThermostatRoute.get
route_get(t, mac_in, in) ==
    /\ cmd[t].pc = "idle"
    /\ LET mac == format_mac(mac_in)
           found == find_thermostat(registry, mac)
           made == create_thermostat(registry, mac, NoBody)
           id == IF found # None THEN found ELSE made.id
       IN /\ id \in Devices
          /\ IF found # None
             THEN UNCHANGED <<registry, thermostats, transport, dht_seen, persisted>>
             ELSE Registered(made)
          /\ CASE in.resource = "targetTemperature" ->
                    answer_targetTemperature(t, id, thermostats'[id], in.temp)
               [] in.resource = "targetHeatingCoolingState" ->
                    answer_targetHeatingCoolingState(t, id, in.mode)
               [] OTHER -> UNCHANGED cmd
          /\ req' = [req EXCEPT ![t] =
                [op |-> "GET", mac |-> mac_in, resource |-> in.resource,
                 found |-> found # None, id |-> id,
                 code |-> GetCode(in.resource), changed |-> registry' # registry]]
    /\ UNCHANGED <<device, poller, thermostat_shutdown, thermostat_shutdown_async,
                   now, dht_sensor, serviceVars, calcVars, cleanupVars>>

\* ThermostatRoute.post: the attributes a body may set
allowed_attributes ==
    {"targetHeatingCoolingState", "targetTemperature", "min_temperature",
     "max_temperature"}

\* a POST that sets every attribute of the body that the object has
SetAttributes_AnyKey(th, postDict) ==
    [f \in DOMAIN th |-> IF f \in postDict.keys THEN postDict[f] ELSE th[f]]

\* ThermostatRoute.post: setattr for the allowed attributes of the body
SetAttributes(th, postDict) ==
    [f \in DOMAIN th |->
        IF f \in postDict.keys /\ f \in allowed_attributes
        THEN postDict[f] ELSE th[f]]

\* the record of a request that is answered at once
Answered(op, mac_in, found, id, code) ==
    [op |-> op, mac |-> mac_in, resource |-> None, found |-> found # None,
     id |-> id, code |-> code, changed |-> registry' # registry]

\* ThermostatRoute.post
route_post(t, mac_in, postDict) ==
    /\ cmd[t].pc = "idle"
    /\ LET mac == format_mac(mac_in)
           found == find_thermostat(registry, mac)
           made == create_thermostat(registry, mac, postDict)
       IN IF found = None /\ postDict.keys = {}
          THEN /\ UNCHANGED <<registry, thermostats, transport, dht_seen, persisted>>
               /\ req' = [req EXCEPT ![t] = Answered("POST", mac_in, found, None, 400)]
          ELSE IF found # None
          THEN /\ thermostats' = [thermostats EXCEPT
                                    ![found] = SetAttributes(@, postDict)]
               /\ persisted' = Persist(registry, thermostats')
               /\ UNCHANGED <<registry, transport, dht_seen>>
               /\ req' = [req EXCEPT ![t] = Answered("POST", mac_in, found, found, 200)]
          ELSE /\ made.id \in Devices
               /\ Registered(made)
               /\ req' = [req EXCEPT ![t] = Answered("POST", mac_in, found, made.id, 200)]
    /\ UNCHANGED <<device, poller, cmd, thermostat_shutdown, thermostat_shutdown_async,
                   now, dht_sensor, serviceVars, calcVars, cleanupVars>>

\* ThermostatRoute.delete
route_delete(t, mac_in) ==
    /\ cmd[t].pc = "idle"
    /\ LET mac == format_mac(mac_in)
           found == find_thermostat(registry, mac)
       IN IF found # None
          THEN /\ registry' = DelItem(registry, found)
               /\ persisted' = Persist(registry', thermostats)
               /\ req' = [req EXCEPT ![t] = Answered("DELETE", mac_in, found, found, 200)]
          ELSE /\ UNCHANGED <<registry, persisted>>
               /\ req' = [req EXCEPT ![t] = Answered("DELETE", mac_in, found, None, 404)]
    /\ UNCHANGED <<thermostats, device, transport, poller, cmd, thermostat_shutdown,
                   thermostat_shutdown_async, now, dht_seen, dht_sensor,
                   serviceVars, calcVars, cleanupVars>>

(* --------------------------- ThermostatService ------------------------- *)
\* the device a MAC address belongs to
MacDevice(mac) == IF lower(mac) = <<"a", ":", "1">> THEN "1" ELSE "2"

\* arguments of the service's set_temperature and set_mode
ServiceTemps == {FloatToStr(215), TextStr}
ServiceModes == {"3", "4"}

\* ThermostatService.get_status behind GET /<mac>/<dht_pin>/status: the
\* record, created and saved when there is none, and the response built of it
service_status(mac_in) ==
    /\ svc.pc = "idle"
    /\ LET mac == format_mac(mac_in)
           store == IF status_store[mac].present THEN status_store
                    ELSE [status_store EXCEPT ![mac] = create_default_thermostat_status]
       IN /\ status_store' = store
          /\ store_saved' = IF status_store[mac].present THEN store_saved ELSE store
          /\ store_sensed' = IF status_store[mac].present THEN store_sensed
                             ELSE store_sensed \ {mac}
          /\ svc' = [IdleSvc EXCEPT
                       !.pc = "done", !.op = "status", !.mac = mac,
                       !.humidity = (store[mac].currentRelativeHumidity # NoReading)]
    /\ UNCHANGED <<loopVars, connected_thermostats, thermostatVars, registryVars,
                   calcVars, cleanupVars>>

\* a reading of dht_service that changed enough: latest_temperature or
\* latest_humidity, then ThermostatService.update_dht_related_status
service_update_dht(temperature, humidity) ==
    /\ temperature = NoReading \/ humidity = NoReading
    /\ temperature # NoReading \/ humidity # NoReading
    /\ dht_data' = [temperature |-> IF temperature # NoReading THEN temperature
                                    ELSE dht_data.temperature,
                    humidity |-> IF humidity # NoReading THEN humidity
                                 ELSE dht_data.humidity,
                    last_logged_dht_temp |->
                        IF temperature # NoReading THEN temperature
                        ELSE dht_data.last_logged_dht_temp]
    /\ status_store' = [m \in ServiceMacs |->
          IF status_store[m].present
          THEN [status_store[m] EXCEPT
                  !.currentTemperature =
                      IF temperature # NoReading THEN temperature ELSE @,
                  !.currentRelativeHumidity =
                      IF humidity # NoReading THEN humidity ELSE @]
          ELSE status_store[m]]
    /\ store_sensed' = store_sensed \cup {m \in ServiceMacs : status_store[m].present}
    /\ UNCHANGED <<store_saved, svc, polling, failed_connections,
                   connected_thermostats, thermostatVars, registryVars, calcVars,
                   cleanupVars>>

\* Config.DHT_TEMP_CHANGE_THRESHOLD, in tenths of a degree
DHT_TEMP_CHANGE_THRESHOLD == 5

\* a reading of dht_service that differs from latest_temperature and is nearer
\* to the last reading handed on than the threshold: latest_temperature only
dht_read_small_change(temperature) ==
    /\ temperature # NoReading
    /\ temperature # dht_data.temperature
    /\ dht_data.last_logged_dht_temp # NoReading
    /\ temperature - dht_data.last_logged_dht_temp < DHT_TEMP_CHANGE_THRESHOLD
    /\ dht_data.last_logged_dht_temp - temperature < DHT_TEMP_CHANGE_THRESHOLD
    /\ dht_data' = [dht_data EXCEPT !.temperature = temperature]
    /\ UNCHANGED <<status_store, store_saved, store_sensed, svc, polling,
                   failed_connections, connected_thermostats, thermostatVars,
                   registryVars, calcVars, cleanupVars>>

\* ThermostatService.set_temperature is entered
service_set_temperature(mac, temp) ==
    /\ svc.pc = "idle"
    /\ svc' = [IdleSvc EXCEPT !.pc = "connect", !.op = "set_temperature",
                              !.mac = mac, !.temp = temp]
    /\ UNCHANGED <<status_store, store_saved, store_sensed, loopVars,
                   connected_thermostats, thermostatVars, registryVars, calcVars,
                   cleanupVars>>

\* ThermostatService.set_mode is entered
service_set_mode(mac, mode) ==
    /\ svc.pc = "idle"
    /\ svc' = [IdleSvc EXCEPT !.pc = "connect", !.op = "set_mode",
                              !.mac = mac, !.mode = mode]
    /\ UNCHANGED <<status_store, store_saved, store_sensed, loopVars,
                   connected_thermostats, thermostatVars, registryVars, calcVars,
                   cleanupVars>>

\* the except clauses of the service's set_temperature and set_mode: the
\* result for an exception they catch, NoResult for one they let through
ServiceCatches(err) == err \in {"BleakError", "EqivaException", "ValueError"}
ServiceError(err) ==
    CASE err = "BleakError"     -> Error("Device was not found")
      [] err = "EqivaException" -> Error("EqivaException")
      [] err = "ValueError"     -> Error("Invalid temperature value")
      [] OTHER                  -> NoResult

\* svc after an exception err left the try block
ServiceRaised(c, err) ==
    [c EXCEPT !.pc = "finally",
              !.result = ServiceError(err),
              !.raised = IF ServiceCatches(err) THEN None ELSE err]

\* a Thermostat(mac) object: the one a command made or the one a poll made
Session(by, mac) == [by |-> by, mac |-> mac]

\* a safe_connect that records the session before it knows about the connect
service_safe_connect_Early(connected, session, outcome) ==
    connected \cup {session}

\* ThermostatService.safe_connect: connected_thermostats after the transport's
\* connect; an exception of connect leaves the set as it is
service_safe_connect(connected, session, outcome) ==
    IF outcome = "ok" THEN connected \cup {session} ELSE connected

\* what the transport's disconnect may do: return, raise, time out, be cancelled
DisconnectOutcomes == Outcomes \cup {"TimeoutError", "CancelledError"}

\* a safe_disconnect with the handler for Exception alone
SafeDisconnectCatches_ExceptionOnly(err) ==
    err \in Errors \cup {"TimeoutError"}

\* the except clauses of safe_disconnect: (TimeoutError, CancelledError), then
\* Exception
SafeDisconnectCatches(err) ==
    err \in {"TimeoutError", "CancelledError"} \/ err \in Errors \cup {"TimeoutError"}

\* safe_disconnect: the except clause that ran, None after a disconnect that
\* returned
SafeDisconnectHandler(outcome) ==
    CASE outcome = "ok" -> None
      [] outcome \in {"TimeoutError", "CancelledError"} -> "TimeoutError, CancelledError"
      [] OTHER -> "Exception"

\* ThermostatService.safe_disconnect: connected_thermostats afterwards; the
\* discard runs when the try statement is left without an exception
service_safe_disconnect(connected, session, outcome) ==
    IF outcome = "ok" \/ SafeDisconnectCatches(outcome)
    THEN connected \ {session}
    ELSE connected

\* the finally clauses around safe_disconnect catch Exception: what gets past
\* safe_disconnect and is no Exception leaves the method
FinallyRaises(outcome) ==
    /\ outcome # "ok"
    /\ ~SafeDisconnectCatches(outcome)
    /\ outcome \notin Errors \cup {"TimeoutError"}

\* ThermostatService.safe_connect inside set_temperature / set_mode
service_connect ==
    /\ svc.pc = "connect"
    /\ \E outcome \in Outcomes :
          /\ svc' = IF outcome = "ok"
                    THEN [svc EXCEPT !.pc = "execute", !.connects = @ + 1]
                    ELSE ServiceRaised([svc EXCEPT !.connects = @ + 1], outcome)
          /\ connected_thermostats' =
                service_safe_connect(connected_thermostats,
                                     Session("command", svc.mac), outcome)
    /\ UNCHANGED <<status_store, store_saved, store_sensed, loopVars,
                   thermostatVars, registryVars, calcVars, cleanupVars>>

\* the transport call of a service command, None when it makes none
ServiceCall(c) ==
    IF c.op = "set_temperature"
    THEN [op |-> "setTemperature", value |-> StrToFloat(c.temp)]
    ELSE [op |-> ModeCall(c.mode), value |-> 0]

\* the record of mac after a command that went through
StoredAfter(st, c) ==
    IF c.op = "set_temperature"
    THEN [st EXCEPT !.targetTemperature = StrToFloat(c.temp)]
    ELSE [st EXCEPT !.targetHeatingCoolingState = RequestedState(c.mode)]

\* set_temperature / set_mode of the service: the statements after the connect
service_execute ==
    /\ svc.pc = "execute"
    /\ IF svc.op = "set_temperature" /\ ~IsNumeric(svc.temp)
       THEN /\ svc' = ServiceRaised(svc, "ValueError")
            /\ UNCHANGED <<status_store, store_saved, device>>
       ELSE IF svc.op = "set_mode" /\ ModeCall(svc.mode) = None
       THEN /\ svc' = [svc EXCEPT !.pc = "finally",
                                  !.result = Error("Invalid mode value")]
            /\ UNCHANGED <<status_store, store_saved, device>>
       ELSE \E outcome \in Outcomes :
              IF outcome # "ok"
              THEN /\ svc' = ServiceRaised([svc EXCEPT !.commands = @ + 1], outcome)
                   /\ UNCHANGED <<status_store, store_saved, device>>
              ELSE /\ device' = [device EXCEPT ![MacDevice(svc.mac)] =
                                    DeviceAfter(@, ServiceCall(svc))]
                   /\ IF status_store[svc.mac].present
                      THEN /\ status_store' = [status_store EXCEPT
                                  ![svc.mac] = StoredAfter(@, svc)]
                           /\ store_saved' = status_store'
                           /\ svc' = [svc EXCEPT !.pc = "finally", !.result = Ok,
                                                 !.commands = @ + 1]
                      ELSE /\ svc' = ServiceRaised([svc EXCEPT !.commands = @ + 1],
                                                   "KeyError")
                           /\ UNCHANGED <<status_store, store_saved>>
    /\ UNCHANGED <<store_sensed, loopVars, connected_thermostats, thermostats,
                   transport, poller, cmd, thermostat_shutdown,
                   thermostat_shutdown_async, now, registryVars, calcVars,
                   cleanupVars>>

\* set_temperature / set_mode of the service: the finally clause
service_finally ==
    /\ svc.pc = "finally"
    /\ \E outcome \in DisconnectOutcomes :
          /\ svc' = [svc EXCEPT !.pc = "done", !.disconnects = @ + 1,
                                !.teardown = SafeDisconnectHandler(outcome),
                                !.raised = IF FinallyRaises(outcome)
                                           THEN outcome ELSE @]
          /\ connected_thermostats' =
                service_safe_disconnect(connected_thermostats,
                                        Session("command", svc.mac), outcome)
    /\ UNCHANGED <<status_store, store_saved, store_sensed, loopVars,
                   thermostatVars, registryVars, calcVars, cleanupVars>>

\* the caller has the result, or the exception
service_return ==
    /\ svc.pc = "done"
    /\ svc' = IdleSvc
    /\ UNCHANGED <<status_store, store_saved, store_sensed, loopVars,
                   connected_thermostats, thermostatVars, registryVars, calcVars,
                   cleanupVars>>

\* Config.MIN_TEMPERATURE and Config.MAX_TEMPERATURE, in tenths of a degree
MIN_TEMPERATURE == 50
MAX_TEMPERATURE == 300

\* a range check that forgets the lower bound
TemperatureAllowed_NoLower(temperature) ==
    temperature <= MAX_TEMPERATURE

\* set_homekit_target_temperature: the range check of the route
TemperatureAllowed(temperature) ==
    MIN_TEMPERATURE <= temperature /\ temperature <= MAX_TEMPERATURE

\* the route of the service has answered without calling the service
homekit_rejects(mac, temp_value, msg) ==
    [IdleSvc EXCEPT !.pc = "done", !.op = "set_temperature", !.mac = mac,
                    !.temp = temp_value, !.result = Error(msg)]

\* GET /<mac>/<dht_pin>/targetTemperature?value=<temp_value> of the service:
\* the checks of the route, then ThermostatService.set_temperature
homekit_targetTemperature(mac_in, temp_value) ==
    /\ svc.pc = "idle"
    /\ LET mac == format_mac(mac_in)
       IN svc' =
            IF IsEmpty(temp_value)
            THEN homekit_rejects(mac, temp_value, "Temperature value is required")
            ELSE IF ~IsNumeric(temp_value)
            THEN homekit_rejects(mac, temp_value, "Invalid temperature value")
            ELSE IF ~TemperatureAllowed(StrToFloat(temp_value))
            THEN homekit_rejects(mac, temp_value, "Temperature must be between")
            ELSE [IdleSvc EXCEPT !.pc = "connect", !.op = "set_temperature",
                                 !.mac = mac,
                                 !.temp = FloatToStr(StrToFloat(temp_value))]
    /\ UNCHANGED <<status_store, store_saved, store_sensed, loopVars,
                   connected_thermostats, thermostatVars, registryVars, calcVars,
                   cleanupVars>>

(* ---------------------- ThermostatService polling ---------------------- *)
\* poll_status: 3 if 'AUTO' in mode else (1 if 'MANUAL' in mode else 0)
PolledTargetState(mode) ==
    IF "AUTO" \in mode THEN 3 ELSE IF "MANUAL" \in mode THEN 1 ELSE 0

\* a calculator with a state of its own for a closed valve in manual mode
models_calculate_heating_cooling_state_ManualIdle(mode, valve) ==
    IF "OFF" \in mode
    THEN 0
    ELSE IF valve = 0 /\ "MANUAL" \in mode
         THEN 2
         ELSE IF valve # NoValve /\ valve > 0 THEN 1 ELSE 0

\* api.models.thermostat.calculate_heating_cooling_state
models_calculate_heating_cooling_state(mode, valve) ==
    IF "OFF" \in mode \/ (valve # NoValve /\ valve <= 0)
    THEN 0
    ELSE IF valve # NoValve /\ valve # 0 /\ valve > 0
         THEN 1
         ELSE 0

\* poll_status: the humidity it takes when dht_service has none
DEFAULT_HUMIDITY == 50

\* poll_status: new_status, built of the status read and of dht_service.get_data()
new_status(read, dht) ==
    [present                    |-> TRUE,
     targetHeatingCoolingState  |-> PolledTargetState(read.mode),
     targetTemperature          |-> read.temperature,
     currentHeatingCoolingState |->
         models_calculate_heating_cooling_state(read.mode, read.valve),
     currentTemperature         |-> IF dht.temperature # NoReading
                                    THEN dht.temperature ELSE read.temperature,
     currentRelativeHumidity    |-> IF dht.humidity # NoReading
                                    THEN dht.humidity ELSE DEFAULT_HUMIDITY,
     last_updated               |-> NoStamp]

\* a comparison that looks at the ambient temperature as well
status_comparable_WithAmbient(st) ==
    <<st.targetHeatingCoolingState, st.targetTemperature,
      st.currentHeatingCoolingState, st.currentTemperature>>

\* poll_status: the record without last_updated, currentTemperature and
\* currentRelativeHumidity
status_comparable(st) ==
    <<st.targetHeatingCoolingState, st.targetTemperature,
      st.currentHeatingCoolingState>>

\* poll_status: the MAC is new or the comparable part of its record differs
StatusChanged(store, mac, candidate) ==
    \/ ~store[mac].present
    \/ status_comparable(store[mac]) # status_comparable(candidate)

\* _polling_loop: one poll_status coroutine for every key of status_store,
\* handed to gather together
polling_loop ==
    /\ polling.pc = "loop"
    /\ polling.cycles < MaxCycles
    /\ LET macs_to_poll == {m \in ServiceMacs : status_store[m].present}
       IN polling' =
            [pc |-> IF macs_to_poll = {} THEN "sleep" ELSE "gather",
             cycles |-> polling.cycles + 1,
             tasks |-> [m \in ServiceMacs |->
                          IF m \in macs_to_poll
                          THEN [IdleTask EXCEPT !.pc = "connect"]
                          ELSE IdleTask]]
    /\ UNCHANGED <<status_store, store_saved, store_sensed, svc,
                   connected_thermostats, failed_connections, dht_data,
                   thermostatVars, registryVars, calcVars, cleanupVars>>

\* poll_status: the except clauses; BleakError is raised again, EqivaException
\* is passed over, anything else is not caught
PollRaised(task, err) ==
    [task EXCEPT !.pc = "finally", !.err = err,
                 !.raised = IF err = "EqivaException" THEN None ELSE err]
\* poll_status: failed_connections after an exception of the try block
PollMarks(failed, mac, err) ==
    IF err \in {"BleakError", "EqivaException"} THEN failed \cup {mac} ELSE failed

\* poll_status of the service: safe_connect and the recovery of the MAC
service_poll_connect(m) ==
    /\ polling.pc = "gather"
    /\ polling.tasks[m].pc = "connect"
    /\ \E outcome \in Outcomes :
          /\ connected_thermostats' =
                service_safe_connect(connected_thermostats, Session("poll", m),
                                     outcome)
          /\ failed_connections' = IF outcome = "ok"
                                   THEN failed_connections \ {m}
                                   ELSE PollMarks(failed_connections, m, outcome)
          /\ polling' = [polling EXCEPT !.tasks[m] =
                IF outcome = "ok" THEN [@ EXCEPT !.pc = "status"]
                ELSE PollRaised(@, outcome)]
    /\ UNCHANGED <<status_store, store_saved, store_sensed, svc, dht_data,
                   thermostatVars, registryVars, calcVars, cleanupVars>>

\* poll_status of the service: await thermostat.requestStatus()
service_poll_request_status(m) ==
    /\ polling.pc = "gather"
    /\ polling.tasks[m].pc = "status"
    /\ \E outcome \in Outcomes :
          /\ failed_connections' = PollMarks(failed_connections, m, outcome)
          /\ polling' = [polling EXCEPT !.tasks[m] =
                IF outcome = "ok"
                THEN [@ EXCEPT !.pc = "store", !.read = device[MacDevice(m)]]
                ELSE PollRaised(@, outcome)]
    /\ UNCHANGED <<status_store, store_saved, store_sensed, svc,
                   connected_thermostats, dht_data, thermostatVars, registryVars,
                   calcVars, cleanupVars>>

\* poll_status of the service: the statements after requestStatus, which build
\* new_status, compare it with the record and store and save what differs
service_poll_store(m) ==
    /\ polling.pc = "gather"
    /\ polling.tasks[m].pc = "store"
    /\ LET candidate == new_status(polling.tasks[m].read, dht_data)
       IN IF StatusChanged(status_store, m, candidate)
          THEN /\ status_store' = [status_store EXCEPT
                      ![m] = [candidate EXCEPT !.last_updated = now]]
               /\ store_saved' = status_store'
          ELSE UNCHANGED <<status_store, store_saved>>
    /\ polling' = [polling EXCEPT !.tasks[m].pc = "finally"]
    /\ UNCHANGED <<store_sensed, svc, connected_thermostats, failed_connections,
                   dht_data, thermostatVars, registryVars, calcVars, cleanupVars>>

\* poll_status of the service: the finally clause
service_poll_finally(m) ==
    /\ polling.pc = "gather"
    /\ polling.tasks[m].pc = "finally"
    /\ \E outcome \in DisconnectOutcomes :
          /\ connected_thermostats' =
                service_safe_disconnect(connected_thermostats, Session("poll", m),
                                        outcome)
          /\ polling' = [polling EXCEPT !.tasks[m] =
                [@ EXCEPT !.pc = "done",
                          !.raised = IF FinallyRaises(outcome) THEN outcome ELSE @]]
    /\ UNCHANGED <<status_store, store_saved, store_sensed, svc,
                   failed_connections, dht_data, thermostatVars, registryVars,
                   calcVars, cleanupVars>>

\* _polling_loop: gather(*tasks, return_exceptions = True) has every result
polling_gather ==
    /\ polling.pc = "gather"
    /\ \A m \in ServiceMacs : polling.tasks[m].pc \in {"none", "done"}
    /\ polling' = [polling EXCEPT !.pc = "sleep"]
    /\ UNCHANGED <<status_store, store_saved, store_sensed, svc,
                   connected_thermostats, failed_connections, dht_data,
                   thermostatVars, registryVars, calcVars, cleanupVars>>

\* _polling_loop: sleep(polling interval)
polling_sleep ==
    /\ polling.pc = "sleep"
    /\ polling' = [polling EXCEPT !.pc = "loop"]
    /\ now' = now + 1
    /\ UNCHANGED <<status_store, store_saved, store_sensed, svc,
                   connected_thermostats, failed_connections, dht_data,
                   thermostats, device, transport, poller, cmd,
                   thermostat_shutdown, thermostat_shutdown_async,
                   registryVars, calcVars, cleanupVars>>

(* -------------------------- shutdown disconnect ------------------------ *)
\* cleanup_all: one wait_for(safe_disconnect(), timeout = 5.0) for every
\* thermostat of the set; an empty set skips the gather
cleanup_all(via, set, hung) ==
    [pc |-> IF set = {} THEN "close" ELSE "gather", via |-> via,
     tasks |-> [d \in Devices |-> IF d \in set THEN "running" ELSE "none"],
     hung |-> hung]

\* services.stateFetch.disconnectThermostats
disconnectThermostats(hung) ==
    /\ cleanup.pc = "idle"
    /\ cleanup' = cleanup_all("disconnectThermostats", Keys(registry), hung)
    /\ UNCHANGED <<thermostatVars, registryVars, serviceVars, calcVars>>

\* ThermostatService.cleanup_thermostats with the set connected_thermostats
cleanup_thermostats(connected, hung) ==
    /\ cleanup.pc = "idle"
    /\ store_saved' = status_store
    /\ cleanup' = IF connected = {}
                  THEN [IdleCleanup EXCEPT !.pc = "done", !.via = "cleanup_thermostats",
                                           !.hung = hung]
                  ELSE cleanup_all("cleanup_thermostats", connected, hung)
    /\ UNCHANGED <<status_store, store_sensed, svc, loopVars,
                   connected_thermostats, thermostatVars, registryVars, calcVars>>

\* a wait_for without a timeout never gives up
TimeoutFires_Never(d) == FALSE

\* wait_for(..., timeout = 5.0): the timer of a disconnect still running
TimeoutFires(d) == cleanup.tasks[d] = "running"

\* the transport's disconnect returns or raises; safe_disconnect swallows it
disconnect_returns(d) ==
    /\ cleanup.pc = "gather"
    /\ cleanup.tasks[d] = "running"
    /\ d \notin cleanup.hung
    /\ \E outcome \in Outcomes :
          cleanup' = [cleanup EXCEPT !.tasks[d] = "finished"]
    /\ UNCHANGED <<thermostatVars, registryVars, serviceVars, calcVars>>

\* the timeout of wait_for cancels the disconnect; safe_disconnect catches the
\* CancelledError and returns
disconnect_timeout(d) ==
    /\ cleanup.pc = "gather"
    /\ TimeoutFires(d)
    /\ cleanup' = [cleanup EXCEPT !.tasks[d] = "timeout"]
    /\ UNCHANGED <<thermostatVars, registryVars, serviceVars, calcVars>>

\* gather(*tasks, return_exceptions = True) returns when no task is running
gather_returns ==
    /\ cleanup.pc = "gather"
    /\ \A d \in Devices : cleanup.tasks[d] # "running"
    /\ cleanup' = [cleanup EXCEPT !.pc = "close"]
    /\ UNCHANGED <<thermostatVars, registryVars, serviceVars, calcVars>>

\* loop.close() in the finally clause
loop_close ==
    /\ cleanup.pc = "close"
    /\ cleanup' = [cleanup EXCEPT !.pc = "done"]
    /\ UNCHANGED <<thermostatVars, registryVars, serviceVars, calcVars>>

(* ------------------------------ DHT sensor ----------------------------- *)
\* readings of the ambient sensor: tenths of a degree, percent
DhtTemperatures == {190}
DhtHumidities == {40}

\* an update that stores the readings and leaves DHT_connected as it is
update_dht_related_status_NoFlag(th, temperature, humidity) ==
    [th EXCEPT
       !.currentTemperature = IF temperature # NoReading THEN temperature ELSE @,
       !.currentRelativeHumidity = IF humidity # NoReading THEN humidity ELSE @]

\* ThermostatObject.update_dht_related_status
update_dht_related_status(th, temperature, humidity) ==
    [th EXCEPT
       !.DHT_connected = TRUE,
       !.currentTemperature = IF temperature # NoReading THEN temperature ELSE @,
       !.currentRelativeHumidity = IF humidity # NoReading THEN humidity ELSE @]

\* _setup_dht_callbacks.handle_temperature_update
handle_temperature_update(temperature) ==
    /\ thermostats' = [d \in Devices |->
          IF d \in Keys(registry)
          THEN update_dht_related_status(thermostats[d], temperature, NoReading)
          ELSE thermostats[d]]
    /\ dht_seen' = dht_seen \cup Keys(registry)
    /\ UNCHANGED <<device, transport, poller, cmd, thermostat_shutdown,
                   thermostat_shutdown_async, now, registry, persisted, req,
                   dht_sensor, serviceVars, calcVars, cleanupVars>>

\* _setup_dht_callbacks.handle_humidity_update
handle_humidity_update(humidity) ==
    /\ thermostats' = [d \in Devices |->
          IF d \in Keys(registry)
          THEN update_dht_related_status(thermostats[d], NoReading, humidity)
          ELSE thermostats[d]]
    /\ dht_seen' = dht_seen \cup Keys(registry)
    /\ UNCHANGED <<device, transport, poller, cmd, thermostat_shutdown,
                   thermostat_shutdown_async, now, registry, persisted, req,
                   dht_sensor, serviceVars, calcVars, cleanupVars>>

\* DHTRoute.post: an existing sensor takes the attributes of the body, a
\* missing one is made by create_dht and put into serverConfig["dht"]
dht_route_post ==
    /\ dht_sensor' = IF dht_sensor.present
                     THEN dht_sensor
                     ELSE [NoDht EXCEPT !.present = TRUE]
    /\ UNCHANGED <<thermostatVars, registry, persisted, req, dht_seen,
                   serviceVars, calcVars, cleanupVars>>

\* DHTRoute.delete: del serverConfig["dht"], 404 without a sensor
dht_route_delete ==
    /\ dht_sensor' = NoDht
    /\ UNCHANGED <<thermostatVars, registry, persisted, req, dht_seen,
                   serviceVars, calcVars, cleanupVars>>

\* the objects after every callback of the sensor's list has run: the list
\* holds handle_temperature_update / handle_humidity_update or nothing
callbacks_applied(temperature, humidity) ==
    IF dht_sensor.callbacks
    THEN [d \in Devices |->
            IF d \in Keys(registry)
            THEN update_dht_related_status(thermostats[d], temperature, humidity)
            ELSE thermostats[d]]
    ELSE thermostats

\* DHTObject._read_dht_temperature with a temperature it hands to
\* _notify_temperature_callbacks
notify_temperature_callbacks(temperature) ==
    /\ dht_sensor.present
    /\ temperature # dht_sensor.latest_temperature
    /\ dht_sensor' = [dht_sensor EXCEPT !.latest_temperature = temperature,
                                        !.last_logged_dht_temp = temperature,
                                        !.notified = TRUE,
                                        !.last_notified = temperature]
    /\ thermostats' = callbacks_applied(temperature, NoReading)
    /\ dht_seen' = IF dht_sensor.callbacks THEN dht_seen \cup Keys(registry)
                   ELSE dht_seen
    /\ UNCHANGED <<device, transport, poller, cmd, thermostat_shutdown,
                   thermostat_shutdown_async, now, registry, persisted, req,
                   serviceVars, calcVars, cleanupVars>>

\* DHTObject._read_dht_temperature with a humidity it hands to
\* _notify_humidity_callbacks
notify_humidity_callbacks(humidity) ==
    /\ dht_sensor.present
    /\ humidity # dht_sensor.latest_humidity
    /\ dht_sensor' = [dht_sensor EXCEPT !.latest_humidity = humidity,
                                        !.last_logged_dht_humidity = humidity]
    /\ thermostats' = callbacks_applied(NoReading, humidity)
    /\ dht_seen' = IF dht_sensor.callbacks THEN dht_seen \cup Keys(registry)
                   ELSE dht_seen
    /\ UNCHANGED <<device, transport, poller, cmd, thermostat_shutdown,
                   thermostat_shutdown_async, now, registry, persisted, req,
                   serviceVars, calcVars, cleanupVars>>

\* what dhtDevice.temperature and dhtDevice.humidity give: hundredths of a
\* degree or of a percent, NoRaw for None
NoRaw == -100000
\* DHTObject.MIN_DHT_TEMP, MAX_DHT_TEMP, MIN_HUMIDITY, MAX_HUMIDITY and
\* DHT_HUMIDITY_CHANGE_THRESHOLD, in tenths
MIN_DHT_TEMP == -400
MAX_DHT_TEMP == 800
MIN_HUMIDITY == 0
MAX_HUMIDITY == 1000
DHT_HUMIDITY_CHANGE_THRESHOLD == 50

\* round(float(x), 1) of a value in hundredths, in tenths; the values read
\* here lie on no half
Round1(x) == (x + 5) \div 10

Abs(x) == IF x < 0 THEN -x ELSE x

\* temperature is not None and MIN_DHT_TEMP < temperature < MAX_DHT_TEMP
TemperatureValid(temperature) ==
    /\ temperature # NoRaw
    /\ MIN_DHT_TEMP * 10 < temperature
    /\ temperature < MAX_DHT_TEMP * 10

\* humidity is not None and MIN_HUMIDITY <= humidity <= MAX_HUMIDITY
HumidityValid(humidity) ==
    /\ humidity # NoRaw
    /\ MIN_HUMIDITY * 10 <= humidity
    /\ humidity <= MAX_HUMIDITY * 10

\* a sensor that hands on a change only when it is above the threshold
ChangedEnough_Above(value, last_logged, threshold) ==
    last_logged = NoReading \/ Abs(value - last_logged) > threshold

\* last_logged is None or abs(value - last_logged) >= threshold
ChangedEnough(value, last_logged, threshold) ==
    last_logged = NoReading \/ Abs(value - last_logged) >= threshold

\* DHTObject._read_dht_temperature: one read of the device and what it does
\* with the two values under dht_lock
read_dht_temperature(temperature, humidity) ==
    /\ dht_sensor.present
    /\ LET rounded_temp == Round1(temperature)
           rounded_humidity == Round1(humidity)
           read == temperature # NoRaw \/ humidity # NoRaw
           new_temp == /\ read
                       /\ TemperatureValid(temperature)
                       /\ dht_sensor.latest_temperature # rounded_temp
           tell_temp == /\ new_temp
                        /\ ChangedEnough(rounded_temp, dht_sensor.last_logged_dht_temp,
                                         DHT_TEMP_CHANGE_THRESHOLD)
           new_hum == /\ read
                      /\ HumidityValid(humidity)
                      /\ dht_sensor.latest_humidity # rounded_humidity
           tell_hum == /\ new_hum
                       /\ ChangedEnough(rounded_humidity,
                                        dht_sensor.last_logged_dht_humidity,
                                        DHT_HUMIDITY_CHANGE_THRESHOLD)
       IN /\ dht_sensor' = [dht_sensor EXCEPT
                !.raw_temperature = temperature,
                !.latest_temperature = IF new_temp THEN rounded_temp ELSE @,
                !.last_logged_dht_temp = IF tell_temp THEN rounded_temp ELSE @,
                !.notified = tell_temp,
                !.last_notified = IF tell_temp THEN rounded_temp ELSE @,
                !.latest_humidity = IF new_hum THEN rounded_humidity ELSE @,
                !.last_logged_dht_humidity = IF tell_hum THEN rounded_humidity ELSE @]
          /\ thermostats' =
                IF dht_sensor.callbacks /\ (tell_temp \/ tell_hum)
                THEN [d \in Devices |->
                        IF d \in Keys(registry)
                        THEN update_dht_related_status(
                                thermostats[d],
                                IF tell_temp THEN rounded_temp ELSE NoReading,
                                IF tell_hum THEN rounded_humidity ELSE NoReading)
                        ELSE thermostats[d]]
                ELSE thermostats
          /\ dht_seen' = IF dht_sensor.callbacks /\ (tell_temp \/ tell_hum)
                         THEN dht_seen \cup Keys(registry)
                         ELSE dht_seen
    /\ UNCHANGED <<device, transport, poller, cmd, thermostat_shutdown,
                   thermostat_shutdown_async, now, registry, persisted, req,
                   serviceVars, calcVars, cleanupVars>>

\* values the device gives: none, 20.00, 20.04, 20.30, 20.50, 21.20, and at
\* the ends of the range 79.96, 80.00 and -40.00
RawTemperatures == {NoRaw, 2000, 2004, 2030, 2050, 2120, 7996, 8000, -4000}
\* none, 40.00, 43.00, 45.00, 100.00 and 100.10 percent
RawHumidities == {NoRaw, 4000, 4300, 4500, 10000, 10010}

\* the reads of the sensor thread
ReadingNext ==
    \E temperature \in RawTemperatures, humidity \in RawHumidities :
        read_dht_temperature(temperature, humidity)

\* the background thread and the shutdown requests
PollSteps ==
    \/ ensure_async_event_loop
    \/ sync_while
    \/ sync_for
    \/ poll_connect
    \/ poll_request_status
    \/ poll_finally
    \/ sync_finally
    \/ sleep_timeout
    \/ sleep_wake
    \/ stop_thermostat_service
    \/ stop_all_services

\* the background thread with devices whose valves move
PollNext ==
    \/ PollSteps
    \/ \E d \in Devices : valve_moves(d)

\* the steps of a command once it is entered
CommandSteps ==
    \/ \E t \in Threads : command_connect(t)
    \/ \E t \in Threads : command_execute(t)
    \/ \E t \in Threads : command_finally(t)
    \/ \E t \in Threads : command_return(t)

\* requests through the HTTP routes
RouteNext ==
    \/ \E t \in Threads, d \in Devices, temp_value \in TempQueryInputs :
          route_targetTemperature(t, d, temp_value)
    \/ \E t \in Threads, d \in Devices, mode_value \in ModeInputs :
          route_targetHeatingCoolingState(t, d, mode_value)
    \/ CommandSteps

\* the methods of ThermostatObject called with arbitrary arguments
CallNext ==
    \/ \E t \in Threads, d \in Devices, temp \in TempQueryInputs :
          call_set_temperature(t, d, temp)
    \/ \E t \in Threads, d \in Devices, mode \in ModeInputs :
          call_set_mode(t, d, mode)
    \/ CommandSteps

\* requests made while the polling thread runs
ConcurrentDevices == {"1"}
ConcurrentTemps == {FloatToStr(215), FloatToStr(350)}
ConcurrentModes == {"3"}

Next ==
    \/ PollSteps
    \/ \E t \in Threads, d \in ConcurrentDevices, temp_value \in ConcurrentTemps :
          route_targetTemperature(t, d, temp_value)
    \/ \E t \in Threads, d \in ConcurrentDevices, mode_value \in ConcurrentModes :
          route_targetHeatingCoolingState(t, d, mode_value)
    \/ CommandSteps

\* create, implicit create, update and remove requests
RegistryNext ==
    \/ \E t \in Threads, mac \in MacInputs, in \in ReadInputs : route_get(t, mac, in)
    \/ \E t \in Threads, mac \in MacInputs, postDict \in PostBodies :
          route_post(t, mac, postDict)
    \/ \E t \in Threads, mac \in MacInputs : route_delete(t, mac)

\* JSON bodies that name the id of the device they create
OverrideBodies ==
    PostBodies \cup {[NoBody EXCEPT !.keys = {"id"}, !.id = "1"]}

\* requests that create devices from bodies with any of the keys
CreateNext ==
    \/ \E t \in Threads, mac \in MacInputs, in \in ReadInputs : route_get(t, mac, in)
    \/ \E t \in Threads, mac \in MacInputs, postDict \in OverrideBodies :
          route_post(t, mac, postDict)
    \/ \E t \in Threads, mac \in MacInputs : route_delete(t, mac)

\* JSON bodies that update a device: the four attributes, other attributes
\* of the object, and both
UpdateBodies ==
    {[NoBody EXCEPT !.keys = allowed_attributes,
                    !.targetHeatingCoolingState = 3, !.targetTemperature = 215,
                    !.min_temperature = 100, !.max_temperature = 250],
     [NoBody EXCEPT !.keys = {"id", "mac", "first_seen", "failed_connection",
                              "currentHeatingCoolingState", "currentTemperature",
                              "currentRelativeHumidity"},
                    !.id = "2", !.mac = <<"C", ":", "3">>, !.first_seen = 1,
                    !.failed_connection = TRUE, !.currentHeatingCoolingState = 1,
                    !.currentTemperature = 190, !.currentRelativeHumidity = 40],
     [NoBody EXCEPT !.keys = {"targetTemperature", "currentTemperature"},
                    !.targetTemperature = 180, !.currentTemperature = 170]}

\* updates and status requests of registered devices while the ambient sensor
\* reports
UpdateNext ==
    \/ \E t \in Threads, mac \in MacInputs, in \in ReadInputs : route_get(t, mac, in)
    \/ \E t \in Threads, mac \in MacInputs, postDict \in UpdateBodies :
          /\ find_thermostat(registry, format_mac(mac)) # None
          /\ route_post(t, mac, postDict)
    \/ \E temperature \in DhtTemperatures : handle_temperature_update(temperature)
    \/ \E humidity \in DhtHumidities : handle_humidity_update(humidity)

\* command requests by MAC, for registered and for removed devices
ImplicitNext ==
    \/ \E t \in Threads, mac \in MacInputs, in \in CommandInputs : route_get(t, mac, in)
    \/ \E t \in Threads, mac \in MacInputs : route_delete(t, mac)
    \/ CommandSteps

\* status requests while the ambient sensor reports
DhtNext ==
    \/ \E t \in Threads, mac \in MacInputs, in \in ReadInputs : route_get(t, mac, in)
    \/ \E t \in Threads, mac \in MacInputs : route_delete(t, mac)
    \/ \E temperature \in DhtTemperatures : handle_temperature_update(temperature)
    \/ \E humidity \in DhtHumidities : handle_humidity_update(humidity)

\* readings the sensor hands to its callbacks
SensorTemperatures == {190, 215}
SensorHumidities == {40}
\* MAC addresses of the requests made while the sensor reads
SensorMacs == {<<"b", ":", "2">>}

\* load_config with or without a dht.yaml: _setup_dht_callbacks registers the
\* handlers on the sensor it finds and returns when there is none
SensorInit ==
    /\ ThermostatInit
    /\ registry = LoadedRegistry
    /\ persisted = Persist(LoadedRegistry, [d \in Devices |-> NewThermostat])
    /\ req = [t \in Threads |-> NoRequest]
    /\ dht_seen = {}
    /\ dht_sensor \in {LoadedDht, NoDht}
    /\ ServiceIdle
    /\ CalcIdle
    /\ CleanupIdle

\* the sensor, its route and the registry route
SensorNext ==
    \/ \E t \in Threads, mac \in SensorMacs, in \in ReadInputs : route_get(t, mac, in)
    \/ \E t \in Threads, mac \in SensorMacs : route_delete(t, mac)
    \/ dht_route_post
    \/ dht_route_delete
    \/ \E temperature \in SensorTemperatures : notify_temperature_callbacks(temperature)
    \/ \E humidity \in SensorHumidities : notify_humidity_callbacks(humidity)

\* MAC addresses of the requests made while the polling loop runs
LiveMacs == {<<"b", ":", "2">>}

\* the polling loop while devices are removed and created
LiveNext ==
    \/ PollSteps
    \/ \E t \in Threads, mac \in LiveMacs, in \in ReadInputs : route_get(t, mac, in)
    \/ \E t \in Threads, mac \in LiveMacs : route_delete(t, mac)

\* the calls of ThermostatService
ServiceNext ==
    \/ \E mac \in MacInputs : service_status(mac)
    \/ \E temperature \in DhtTemperatures : service_update_dht(temperature, NoReading)
    \/ \E humidity \in DhtHumidities : service_update_dht(NoReading, humidity)
    \/ \E mac \in ServiceMacs, temp \in ServiceTemps : service_set_temperature(mac, temp)
    \/ \E mac \in ServiceMacs, mode \in ServiceModes : service_set_mode(mac, mode)
    \/ service_connect
    \/ service_execute
    \/ service_finally
    \/ service_return

\* requests through the routes of the service
HomekitNext ==
    \/ \E mac \in MacInputs : service_status(mac)
    \/ \E mac \in MacInputs, temp_value \in TempQueryInputs :
          homekit_targetTemperature(mac, temp_value)
    \/ service_connect
    \/ service_execute
    \/ service_finally
    \/ service_return

\* MACs and temperatures of the commands made while the service polls
PollingCommandMacs == {<<"A", ":", "1">>}
PollingTemps == {FloatToStr(215)}

\* the steps of _polling_loop and of its poll_status coroutines
PollingSteps ==
    \/ polling_loop
    \/ \E m \in ServiceMacs : service_poll_connect(m)
    \/ \E m \in ServiceMacs : service_poll_request_status(m)
    \/ \E m \in ServiceMacs : service_poll_store(m)
    \/ \E m \in ServiceMacs : service_poll_finally(m)
    \/ polling_gather
    \/ polling_sleep

\* the polling thread of ThermostatService and the requests of its routes
PollingNext ==
    \/ \E mac \in ServiceMacs : service_status(mac)
    \/ \E mac \in PollingCommandMacs, temp \in PollingTemps :
          service_set_temperature(mac, temp)
    \/ service_connect
    \/ service_execute
    \/ service_finally
    \/ service_return
    \/ PollingSteps

\* the polling thread of ThermostatService while valves move and the ambient
\* sensor reports
\* readings of the sensor nearer to the last one than the threshold
DriftTemperatures == {192}

DiffNext ==
    \/ \E mac \in PollingCommandMacs : service_status(mac)
    \/ service_return
    \/ \E temperature \in DhtTemperatures : service_update_dht(temperature, NoReading)
    \/ \E temperature \in DriftTemperatures : dht_read_small_change(temperature)
    \/ \E d \in ConcurrentDevices : valve_moves(d)
    \/ PollingSteps

\* the disconnect of all thermostats at shutdown, after devices were removed
CleanupNext ==
    \/ \E t \in Threads, mac \in MacInputs : cleanup.pc = "idle" /\ route_delete(t, mac)
    \/ \E hung \in SUBSET Devices : disconnectThermostats(hung)
    \/ \E connected \in SUBSET Devices, hung \in SUBSET Devices :
          cleanup_thermostats(connected, hung)
    \/ \E d \in Devices : disconnect_returns(d)
    \/ \E d \in Devices : disconnect_timeout(d)
    \/ gather_returns
    \/ loop_close

\* the whole server: polling thread, shutdown and request threads
Spec == Init /\ [][Next]_vars
\* the polling thread alone
PollSpec == Init /\ [][PollNext]_vars
\* the request threads alone
RouteSpec == Init /\ [][RouteNext]_vars
\* the command methods on their own
CallSpec == Init /\ [][CallNext]_vars
\* the registry routes
RegistrySpec == Init /\ [][RegistryNext]_vars

CreateSpec == Init /\ [][CreateNext]_vars

UpdateSpec == Init /\ [][UpdateNext]_vars

ReadingSpec == Init /\ [][ReadingNext]_vars
\* the command resources of the registry route
ImplicitSpec == Init /\ [][ImplicitNext]_vars
\* the registry route and the sensor callbacks
DhtSpec == Init /\ [][DhtNext]_vars
\* the polling loop and the registry route
LiveSpec == Init /\ [][LiveNext]_vars
\* the ambient sensor, created at startup or by its route
SensorSpec == SensorInit /\ [][SensorNext]_vars
\* the routes of the older ThermostatService
HomekitSpec == Init /\ [][HomekitNext]_vars
\* the older ThermostatService
ServiceSpec == Init /\ [][ServiceNext]_vars
\* the older ThermostatService with its polling thread
PollingSpec == Init /\ [][PollingNext]_vars
\* the polling thread of ThermostatService and what changes between its polls
DiffSpec == Init /\ [][DiffNext]_vars
\* the shutdown disconnect: the event loop runs every timer that is due and
\* every coroutine that can go on
CleanupSpec ==
    /\ Init
    /\ [][CleanupNext]_vars
    /\ \A d \in Devices : WF_vars(disconnect_timeout(d))
    /\ WF_vars(gather_returns)
    /\ WF_vars(loop_close)

(* ------------------------- the calculator alone ------------------------ *)
\* Mode.to_dict(): the flags a status report may carry
CalcModes == SUBSET {"AUTO", "MANUAL", "OFF", "BOOST"}
\* valve positions, NoValve for a call without the argument
CalcValves == {NoValve, -5, 0, 1, 50, 100}

CalcInit ==
    /\ ThermostatInit
    /\ RegistryLoaded
    /\ ServiceIdle
    /\ CleanupIdle
    /\ calc \in [pc : {"input"}, mode : CalcModes, valve : CalcValves,
                 result : {NoCalc.result}]
    /\ trip = NoTrip
    /\ race = NoRace

\* poll_status: target_mode_status = calculate_heating_cooling_state(mode)
calculate_target ==
    /\ calc.pc \in {"input", "target", "current"}
    /\ calc' = [calc EXCEPT
                  !.pc = "target",
                  !.result = calculate_heating_cooling_state(calc.mode, NoValve)]
    /\ UNCHANGED <<thermostatVars, registryVars, serviceVars, cleanupVars, trip, race>>

\* poll_status: current_mode_status = calculate_heating_cooling_state(mode, valve)
calculate_current ==
    /\ calc.pc \in {"input", "target", "current"}
    /\ calc' = [calc EXCEPT
                  !.pc = "current",
                  !.result = calculate_heating_cooling_state(calc.mode, calc.valve)]
    /\ UNCHANGED <<thermostatVars, registryVars, serviceVars, cleanupVars, trip, race>>

CalcNext ==
    \/ calculate_target
    \/ calculate_current

\* calculate_heating_cooling_state applied to every input
CalcSpec == CalcInit /\ [][CalcNext]_vars

(* ----------------------- requests handled at once ---------------------- *)
\* MAC addresses of the two requests, as format_mac leaves them
RaceMacs == {<<"A", ":", "1">>, <<"B", ":", "2">>}

\* a server without thermostats.yaml and two GET requests in their threads
RaceInit ==
    /\ ThermostatInit
    /\ registry = <<>>
    /\ persisted = {}
    /\ req = [t \in Threads |-> NoRequest]
    /\ dht_seen = {}
    /\ dht_sensor = LoadedDht
    /\ ServiceIdle
    /\ CleanupIdle
    /\ calc = NoCalc
    /\ trip = NoTrip
    /\ race \in [Requests -> [pc : {"find"}, mac : RaceMacs, id : {None}, code : {0}]]

\* ThermostatRoute.get: find_thermostat(mac)
race_find(r) ==
    /\ race[r].pc = "find"
    /\ LET found == find_thermostat(registry, race[r].mac)
       IN race' = [race EXCEPT ![r] =
             IF found # None
             THEN [@ EXCEPT !.pc = "done", !.id = found, !.code = 200]
             ELSE [@ EXCEPT !.pc = "create"]]
    /\ UNCHANGED <<thermostatVars, registryVars, serviceVars, cleanupVars, calc, trip>>

\* create_thermostat: find_thermostat(mac) once more, ValueError when found
race_create(r) ==
    /\ race[r].pc = "create"
    /\ LET found == find_thermostat(registry, race[r].mac)
       IN race' = [race EXCEPT ![r] =
             IF found # None
             THEN [@ EXCEPT !.pc = "done", !.code = 400]
             ELSE [@ EXCEPT !.pc = "id"]]
    /\ UNCHANGED <<thermostatVars, registryVars, serviceVars, cleanupVars, calc, trip>>

\* create_thermostat: nextFreeId and the new object
race_nextFreeId(r) ==
    /\ race[r].pc = "id"
    /\ race' = [race EXCEPT ![r] = [@ EXCEPT !.pc = "insert",
                                              !.id = nextFreeId(registry)]]
    /\ UNCHANGED <<thermostatVars, registryVars, serviceVars, cleanupVars, calc, trip>>

\* ThermostatRoute.get: the object is put into the registry and save_config
\* is called
race_insert(r) ==
    /\ race[r].pc = "insert"
    /\ race[r].id \in Devices
    /\ Registered([id |-> race[r].id, mac |-> race[r].mac, object |-> NewThermostat])
    /\ race' = [race EXCEPT ![r] = [@ EXCEPT !.pc = "done", !.code = 200]]
    /\ UNCHANGED <<device, poller, cmd, thermostat_shutdown, thermostat_shutdown_async,
                   now, req, dht_sensor, serviceVars, cleanupVars, calc, trip>>

RaceNext ==
    \/ \E r \in Requests : race_find(r)
    \/ \E r \in Requests : race_create(r)
    \/ \E r \in Requests : race_nextFreeId(r)
    \/ \E r \in Requests : race_insert(r)

\* two GET requests for unseen devices in two threads
RaceSpec == RaceInit /\ [][RaceNext]_vars

(* --------------------------- save and load ----------------------------- *)
\* keys of serverConfig["thermostats"]: nextFreeId gives "1", "2", ...; the
\* key "id" of a POST body that creates a device may hold any string
TripIds == {"0", "1", "2"}
\* MAC addresses as format_mac leaves them
TripMacs == {<<"A", ":", "1">>, <<"B", ":", "2">>}
\* first_seen stamps
TripStamps == {0, 1}
\* the fields a ThermostatObject may hold
TripObjects ==
    [failed_connection          : BOOLEAN,
     targetHeatingCoolingState  : {0, 3},
     targetTemperature          : {0, 215},
     currentHeatingCoolingState : {0, 1},
     currentTemperature         : {0, 190},
     currentRelativeHumidity    : {0, 40},
     last_updated               : {None},
     first_seen                 : TripStamps,
     DHT_connected              : BOOLEAN,
     min_temperature            : {DEFAULT_MIN_TEMPERATURE},
     max_temperature            : {DEFAULT_MAX_TEMPERATURE, 250}]

\* a registered device before save_config is called
TripInit ==
    /\ ThermostatInit
    /\ RegistryLoaded
    /\ ServiceIdle
    /\ CleanupIdle
    /\ calc = NoCalc
    /\ race = NoRace
    /\ trip \in [pc : {"registered"}, id : TripIds, mac : TripMacs,
                 object : TripObjects,
                 file : {NoTrip.file}, loaded : {NoTrip.loaded}]

\* save_config(resource = "thermostats"): every element but "0" is dumped
\* under the id of its object, with the dict save() returns
save_config_thermostats ==
    /\ trip.pc = "registered"
    /\ trip' = [trip EXCEPT
                  !.pc = "saved",
                  !.file = IF trip.id # "0"
                           THEN {[id |-> trip.id,
                                  data |-> save(trip.object, trip.mac)]}
                           ELSE {}]
    /\ UNCHANGED <<thermostatVars, registryVars, serviceVars, cleanupVars, calc, race>>

\* ThermostatObject(data) for the data of the file: the keys save() wrote,
\* defaults for the others
ThermostatObject_load(data) ==
    [failed_connection          |-> FALSE,
     targetHeatingCoolingState  |-> data.targetHeatingCoolingState,
     targetTemperature          |-> data.targetTemperature,
     currentHeatingCoolingState |-> data.currentHeatingCoolingState,
     currentTemperature         |-> data.currentTemperature,
     currentRelativeHumidity    |-> data.currentRelativeHumidity,
     last_updated               |-> None,
     first_seen                 |-> data.first_seen,
     DHT_connected              |-> FALSE,
     min_temperature            |-> data.min_temperature,
     max_temperature            |-> data.max_temperature]

\* Config._load_thermostats: an object for every key of thermostats.yaml
load_thermostats ==
    /\ trip.pc = "saved"
    /\ trip' = [trip EXCEPT
                  !.pc = "loaded",
                  !.loaded = IF trip.file = {}
                             THEN NoTrip.loaded
                             ELSE LET e == CHOOSE e \in trip.file : TRUE
                                  IN [present |-> TRUE, id |-> e.id,
                                      mac |-> e.data.mac,
                                      object |-> ThermostatObject_load(e.data)]]
    /\ UNCHANGED <<thermostatVars, registryVars, serviceVars, cleanupVars, calc, race>>

TripNext ==
    \/ save_config_thermostats
    \/ load_thermostats

\* a device saved and loaded back
TripSpec == TripInit /\ [][TripNext]_vars

(* ------------------------------- claims -------------------------------- *)
\* an operation attempt of the poller is over
PollAttemptOver == poller.dev # None /\ poller.pc \in {"for", "sleep", "while", "done", "crashed"}

\* C1: the poller and a command never hold an open BLE session for the same
\* device at the same time.
C1_NoSharedSession ==
    \A t \in Threads :
        ~(poller.session /\ cmd[t].session /\ poller.dev = cmd[t].dev)

\* C2: at the end of every operation attempt (one poll of a device inside the
\* polling loop, one set_temperature, one set_mode) the number of transport
\* disconnect calls equals the number of transport connect calls.
C2_DisconnectPerConnect ==
    /\ PollAttemptOver => poller.disconnects = poller.connects
    /\ \A t \in Threads :
          cmd[t].pc = "done" => cmd[t].disconnects = cmd[t].connects

\* the transport calls a request has made so far
TransportCalls(c) == c.connects + c.commands + c.disconnects

\* C3: a set-temperature request below min_temperature or above
\* max_temperature is answered with the range error and makes no call to the
\* transport; a request inside the range is not refused, connects, and hands
\* the transport the requested value.
C3_Rejected ==
    \A t \in Threads :
        LET c == cmd[t]
            th == thermostats[c.dev]
        IN (c.kind = "temperature" /\ c.via = "route" /\ IsNumeric(c.temp)
               /\ (c.asked < th.min_temperature \/ c.asked > th.max_temperature))
           => /\ c.pc = "done"
              /\ c.result = Error("Temperature must be between")
              /\ TransportCalls(c) = 0

C3_Accepted ==
    \A t \in Threads :
        LET c == cmd[t]
            th == thermostats[c.dev]
        IN (c.kind = "temperature" /\ c.via = "route" /\ IsNumeric(c.temp)
               /\ th.min_temperature <= c.asked /\ c.asked <= th.max_temperature)
           => /\ c.pc # "connect" => c.connects = 1
              /\ c.result.message \notin {"Temperature must be between",
                                          "Invalid temperature value",
                                          "Temperature value is required"}
              /\ c.commands > 0 =>
                    c.sent = [op |-> "setTemperature", value |-> c.asked]

C3_Forwarded ==
    \A t \in Threads :
        (cmd[t].kind = "temperature" /\ cmd[t].via = "route"
            /\ cmd[t].pc = "execute" /\ cmd'[t].pc # "execute")
        => /\ cmd'[t].commands = 1
           /\ cmd'[t].sent = [op |-> "setTemperature", value |-> cmd[t].asked]

C3_RangeValidation ==
    /\ [](C3_Rejected /\ C3_Accepted)
    /\ [][C3_Forwarded]_vars

\* C3 witness: the upper bound itself was accepted and sent to the transport
C3_Witness ==
    \E t \in Threads :
        /\ cmd[t].pc = "done" /\ cmd[t].via = "route"
        /\ cmd[t].kind = "temperature"
        /\ cmd[t].asked = thermostats[cmd[t].dev].max_temperature
        /\ cmd[t].result = Ok
        /\ cmd[t].sent = [op |-> "setTemperature", value |-> DEFAULT_MAX_TEMPERATURE]

\* C4: set_mode with a mode other than '0', '1', '2', '3' returns the
\* invalid-mode error and makes no call to the transport, connect included.
C4_InvalidModeNoTransport ==
    \A t \in Threads :
        LET c == cmd[t]
        IN (c.kind = "mode" /\ c.mode \notin {"", "0", "1", "2", "3"})
           => /\ TransportCalls(c) = 0
              /\ c.pc = "done" => c.result = Error("Invalid mode value")

\* C5: after set_mode returns ok, the transport call matches the mode and the
\* stored targetHeatingCoolingState is the requested one.
C5_ModeStored ==
    \A t \in Threads :
        LET c == cmd[t]
        IN (c.kind = "mode" /\ c.pc = "done" /\ c.result = Ok)
           => /\ c.sent.op = ModeCall(c.mode)
              /\ thermostats[c.dev].targetHeatingCoolingState
                    = RequestedState(c.mode)

\* C6: after set_temperature(value) returns ok, the status of the device
\* reports targetTemperature = value.
C6_TemperatureStored ==
    \A t \in Threads :
        LET c == cmd[t]
        IN (c.kind = "temperature" /\ c.pc = "done" /\ c.result = Ok)
           => get_status(thermostats[c.dev]).targetTemperature = c.asked

\* C7: a poll that reads the same mode, valve and temperature as the poll
\* before it leaves the stored record as it is.
C7_SecondPollLeavesRecord ==
    [][(/\ poller.pc = "status"
        /\ poller'.pc = "finally"
        /\ poller'.err = "ok"
        /\ transport[poller.dev] = device[poller.dev])
       => thermostats'[poller.dev] = thermostats[poller.dev]]_vars

\* C8: whatever a poll of one device raises, the failure is recorded on the
\* device and the loop goes on to the next device.
C8_CycleNeverAborted ==
    /\ poller.pc # "crashed"
    /\ (poller.pc = "sync_finally" /\ poller.err # "ok")
          => thermostats[poller.dev].failed_connection

\* C9: once the shutdown signal is raised it stays raised, and the polling
\* loop starts no further device operation and no further cycle; a connect is
\* issued only by the operation that had already begun.
C9_Step ==
    thermostat_shutdown =>
        /\ thermostat_shutdown'
        /\ poller'.pc = "connect" => poller.pc = "connect"
        /\ poller'.connects # poller.connects => poller.pc = "connect"
        /\ poller'.cycles = poller.cycles

C9_NoConnectAfterShutdown == [][C9_Step]_vars

\* C9 witness: the loop left a cycle with devices still to poll
C9_Witness ==
    /\ thermostat_shutdown
    /\ poller.pc \in {"sleep", "done"}
    /\ Ahead(registry, poller.pos) # {}
    /\ poller.dev # None

\* C10: a shutdown raised while the loop is in its inter-cycle sleep sets the
\* event the sleep waits on, so the sleep ends without its timeout.
C10_SleepInterrupted ==
    [][(poller.pc = "sleep" /\ ~thermostat_shutdown /\ thermostat_shutdown')
       => thermostat_shutdown_async']_vars

\* a step in which the transport's connect to device d succeeds
ConnectSucceeds(d) ==
    \/ poller.pc = "connect" /\ poller.dev = d /\ poller'.session
    \/ \E t \in Threads :
          cmd[t].pc = "connect" /\ cmd[t].dev = d /\ cmd'[t].session

\* C11: once failed_connection of a device is set it stays set in every later
\* state until a connect to that device succeeds; no other step clears it.
C11_Step ==
    \A d \in Devices :
        (thermostats[d].failed_connection /\ ~thermostats'[d].failed_connection)
        => ConnectSucceeds(d)

C11_FailedConnectionSticky == [][C11_Step]_vars

StateTable(mode, valve) ==
    IF valve # NoValve
    THEN IF "OFF" \in mode \/ valve <= 0 THEN [int |-> 0, str |-> "Off"]
         ELSE [int |-> 1, str |-> "Heating"]
    ELSE IF "AUTO" \in mode THEN [int |-> 3, str |-> "Auto"]
         ELSE IF "MANUAL" \in mode THEN [int |-> 1, str |-> "Manual"]
         ELSE [int |-> 0, str |-> "Off"]

\* the valve argument of the call that produced calc.result
GivenValve == IF calc.pc = "current" THEN calc.valve ELSE NoValve

\* C17: the calculator returns Off (0) when a valve is given and 'OFF' is in
\* the mode or the valve is <= 0, Heating (1) when the valve is > 0; without a
\* valve it returns Auto (3) for 'AUTO', else Manual (1) for 'MANUAL', else
\* Off (0); the same inputs always give the same result.
C17_Table ==
    calc.pc \in {"target", "current"}
        => calc.result = StateTable(calc.mode, GivenValve)

C17_SameResult ==
    (calc.pc \in {"target", "current"} /\ calc'.pc = calc.pc)
        => calc'.result = calc.result

Live(reg) == {i \in DOMAIN reg : reg[i] # Hole}

\* C13: a set-temperature or set-mode request for a MAC that is not registered
\* leaves the registry as it was and makes no call to the transport.
C13_UnregisteredCommandRefused ==
    \A t \in Threads :
        (/\ req[t].op = "GET"
         /\ req[t].resource \in {"targetTemperature", "targetHeatingCoolingState"}
         /\ ~req[t].found)
        => /\ ~req[t].changed
           /\ TransportCalls(cmd[t]) = 0

\* C14: a status request for an unregistered MAC creates a record whose status
\* reports targetTemperature 20.0 and targetHeatingCoolingState Off (0), and
\* the record is in the saved file when the request has returned.
C14_DefaultRecord ==
    \A t \in Threads :
        (req[t].op = "GET" /\ req[t].resource = "status" /\ ~req[t].found)
        => /\ get_status(thermostats[req[t].id]).targetTemperature = 200
           /\ get_status(thermostats[req[t].id]).targetHeatingCoolingState = 0
           /\ \E e \in persisted :
                 /\ e.id = req[t].id
                 /\ e.data.mac = format_mac(req[t].mac)
                 /\ e.data.targetTemperature = 200
                 /\ e.data.targetHeatingCoolingState = 0

\* C15: after any sequence of create, implicit-create, update and remove
\* requests no two registered devices have the same MAC ignoring case.
C15_UniqueMacs ==
    \A i, j \in Live(registry) :
        i # j => lower(registry[i].mac) # lower(registry[j].mac)

\* C16: a device registered or removed while a poll cycle is in flight does not
\* stop the cycle: the loop goes through the remaining devices without error.
C16_CycleSurvivesRegistryChange ==
    ~(poller.pc = "crashed" /\ poller.err = "RuntimeError")

\* C12: set_temperature and set_mode hand every failure to their caller as a
\* result value and never raise, whatever the transport raises and whether or
\* not the MAC has a stored status record.
C12_FailuresAreResults ==
    /\ svc.op \in {"set_temperature", "set_mode"} => svc.raised = None
    /\ svc.pc = "done" /\ svc.op \in {"set_temperature", "set_mode"}
          => svc.result.result \in {"ok", "error"}
    /\ \A t \in Threads :
          cmd[t].pc = "done" => cmd[t].result.result \in {"ok", "error"}

\* C18: the status response of a device carries currentRelativeHumidity only
\* if the device received a sensor update since it was created or loaded.
C18_HumidityOnlyAfterUpdate ==
    /\ \A i \in Live(registry) :
          "currentRelativeHumidity" \in DOMAIN get_status(thermostats[registry[i].id])
             => registry[i].id \in dht_seen
    /\ (svc.op = "status" /\ svc.humidity) => svc.mac \in store_sensed

\* C19: the shutdown disconnect of all thermostats terminates, even when the
\* transport's disconnect of one or more devices never returns.
C19_CleanupTerminates == (cleanup.pc = "gather") ~> (cleanup.pc = "done")

\* C19 witness: the cleanup is over although a disconnect never returned
C19_Witness ==
    /\ cleanup.pc = "done"
    /\ \E d \in cleanup.hung : cleanup.tasks[d] = "timeout"

\* the Thermostat objects that a poll of the service has connected and not
\* yet disconnected
PollSessions == {s \in connected_thermostats : s.by = "poll"}

\* C21: within a poll cycle the devices are polled one after the other: the
\* poller holds at most one open BLE session at any time and connects to the
\* next device only after the disconnect of the device before it has run.
C21_SequentialPolling ==
    /\ Cardinality(PollSessions) <= 1
    /\ poller.pc = "connect" => ~poller.session

\* C22: no update is lost between a poll and a command on the same device: a
\* targetTemperature or targetHeatingCoolingState that a successful command
\* stored is not overwritten by a poll with a value that the poll read from the
\* device before the command was executed.
C22_Step ==
    \A m \in ServiceMacs :
        LET task == polling.tasks[m]
            dv == device[MacDevice(m)]
        IN (/\ task.pc = "store"
            /\ polling'.tasks[m].pc = "finally"
            /\ status_store[m].present)
           => /\ (/\ status_store[m].targetTemperature = dv.temperature
                  /\ task.read.temperature # dv.temperature)
                 => status_store'[m].targetTemperature
                       = status_store[m].targetTemperature
              /\ (/\ status_store[m].targetHeatingCoolingState
                        = PolledTargetState(dv.mode)
                  /\ PolledTargetState(task.read.mode) # PolledTargetState(dv.mode))
                 => status_store'[m].targetHeatingCoolingState
                       = status_store[m].targetHeatingCoolingState

C22_NoLostUpdate == [][C22_Step]_vars

\* C23: a poll that was in flight when its device was removed is ignored: it
\* does not put the device back into the registry or the status store and
\* triggers no save of it; the saved file holds registered devices only.
C23_Kept == \A e \in persisted : e.id \in Keys(registry)

C23_Step ==
    (Held(poller.dev) /\ poller.dev \notin Keys(registry) /\ poller' # poller)
    => /\ registry' = registry
       /\ persisted' = persisted
       /\ status_store' = status_store

C23_InFlightPollIgnored == []C23_Kept /\ [][C23_Step]_vars

\* C23 witness: the poll of a device that was removed meanwhile has read the
\* status and written it to the object it holds
C23_Witness ==
    /\ poller.pc = "sync_finally"
    /\ poller.err = "ok"
    /\ poller.dev \notin Keys(registry)
    /\ thermostats[poller.dev].targetHeatingCoolingState = 3

\* C24: a poll whose candidate differs from the record of a known device in
\* currentTemperature, currentRelativeHumidity or last_updated only leaves the
\* record and the saved file as they are; it replaces the record with the
\* candidate, stamps it and saves when targetHeatingCoolingState,
\* targetTemperature or currentHeatingCoolingState differs or the device is new.
C24_Step ==
    \A m \in ServiceMacs :
        LET task      == polling.tasks[m]
            candidate == new_status(task.read, dht_data)
            old       == status_store[m]
        IN (task.pc = "store" /\ polling'.tasks[m].pc = "finally")
           => IF /\ old.present
                 /\ old.targetHeatingCoolingState = candidate.targetHeatingCoolingState
                 /\ old.targetTemperature = candidate.targetTemperature
                 /\ old.currentHeatingCoolingState = candidate.currentHeatingCoolingState
              THEN /\ status_store' = status_store
                   /\ store_saved' = store_saved
              ELSE /\ status_store'[m] = [candidate EXCEPT !.last_updated = now]
                   /\ store_saved' = status_store'

C24_AmbientDriftsSilently == [][C24_Step]_vars

\* C24 witness: a poll has compared a candidate whose ambient temperature is
\* not the stored one, the record still holds the older ambient temperature
\* and the older stamp, and the saved file is behind the store
C24_Witness ==
    \E m \in ServiceMacs :
        LET task      == polling.tasks[m]
            candidate == new_status(task.read, dht_data)
        IN /\ task.pc = "finally"
           /\ task.err = "ok"
           /\ status_store[m].present
           /\ status_store[m].last_updated # NoStamp
           /\ status_store[m].last_updated < now
           /\ candidate.currentTemperature # status_store[m].currentTemperature
           /\ status_store[m].targetHeatingCoolingState = candidate.targetHeatingCoolingState
           /\ status_store[m].targetTemperature = candidate.targetTemperature
           /\ status_store[m].currentHeatingCoolingState = candidate.currentHeatingCoolingState
           /\ store_saved # status_store

\* C25: after a safe_connect whose transport connect succeeded the device is
\* not marked as failed, whatever it was before; after one whose connect failed
\* the device is marked as failed and the caller has the error.
C25_Step ==
    /\ (svc.pc = "connect" /\ svc'.pc = "execute")
       => svc.mac \notin failed_connections'
    /\ (svc.pc = "connect" /\ svc'.pc = "finally")
       => /\ svc.mac \in failed_connections'
          /\ svc'.result # NoResult \/ svc'.raised # None
    /\ \A m \in ServiceMacs :
          /\ (polling.tasks[m].pc = "connect" /\ polling'.tasks[m].pc = "status")
             => m \notin failed_connections'
          /\ (polling.tasks[m].pc = "connect" /\ polling'.tasks[m].pc = "finally")
             => m \in failed_connections'

C25_SafeConnectFlag == [][C25_Step]_vars

\* C26: safe_disconnect never raises to its caller, whether the transport's
\* disconnect returned, timed out, was cancelled or raised, and afterwards the
\* session is not in the connected set.
C26_Step ==
    /\ (svc.pc = "finally" /\ svc'.pc # "finally")
       => /\ svc'.raised = svc.raised
          /\ Session("command", svc.mac) \notin connected_thermostats'
    /\ \A m \in ServiceMacs :
          (polling.tasks[m].pc = "finally" /\ polling'.tasks[m].pc # "finally")
          => /\ polling'.tasks[m].raised = polling.tasks[m].raised
             /\ Session("poll", m) \notin connected_thermostats'

C26_SafeDisconnectSwallows == [][C26_Step]_vars

\* C26 witness: a command that had connected has left its finally clause after
\* a disconnect that timed out or was cancelled; it has a result, no exception,
\* and its session is out of the set
C26_Witness ==
    /\ svc.pc = "done"
    /\ svc.commands > 0
    /\ svc.teardown = "TimeoutError, CancelledError"
    /\ svc.raised = None
    /\ svc.result # NoResult
    /\ Session("command", svc.mac) \notin connected_thermostats

\* C27: a command that ends with a device-not-found, protocol-error or
\* connection-failed result leaves failed_connection true; a command that ends
\* with an invalid-value result leaves failed_connection as it was before the
\* command: its connect, the one step it takes on the device, does not change it.
C27_Step ==
    \A t \in Threads :
        LET c == cmd[t]
        IN /\ (/\ c.pc \in {"connect", "execute"}
               /\ cmd'[t].pc = "finally"
               /\ cmd'[t].result \in {CommandError(err) : err \in Errors})
              => thermostats'[c.dev].failed_connection
           /\ (/\ c.pc = "connect"
               /\ cmd'[t].pc = "execute"
               /\ CommandCall(c).op = None)
              => thermostats'[c.dev].failed_connection
                    = thermostats[c.dev].failed_connection

C27_ErrorsMarkFailure == [][C27_Step]_vars

\* C28: a poll that fails at connect or at the status request leaves the
\* device's targetHeatingCoolingState, targetTemperature,
\* currentHeatingCoolingState, currentTemperature, currentRelativeHumidity and
\* last_updated as they were; failed_connection alone may change.
C28_Kept(d) ==
    /\ thermostats'[d].targetHeatingCoolingState = thermostats[d].targetHeatingCoolingState
    /\ thermostats'[d].targetTemperature = thermostats[d].targetTemperature
    /\ thermostats'[d].currentHeatingCoolingState = thermostats[d].currentHeatingCoolingState
    /\ thermostats'[d].currentTemperature = thermostats[d].currentTemperature
    /\ thermostats'[d].currentRelativeHumidity = thermostats[d].currentRelativeHumidity
    /\ thermostats'[d].last_updated = thermostats[d].last_updated

C28_Step ==
    /\ (poller.pc = "connect" /\ poller' # poller) => C28_Kept(poller.dev)
    /\ (/\ poller.pc \in {"status", "finally", "sync_finally"}
        /\ poller' # poller
        /\ poller'.err # "ok")
       => C28_Kept(poller.dev)

C28_FailedPollKeepsState == [][C28_Step]_vars

\* C28 witness: a poll has failed on a device that holds the status of an
\* earlier poll
C28_Witness ==
    /\ poller.pc = "sync_finally"
    /\ poller.err # "ok"
    /\ poller.cycles = 2
    /\ thermostats[poller.dev].failed_connection
    /\ thermostats[poller.dev].targetHeatingCoolingState = 3
    /\ thermostats[poller.dev].targetTemperature = device[poller.dev].temperature

\* C29: whenever a set-temperature request that succeeds sets the stored
\* targetTemperature of a device, the value stored lies between the minimum and
\* the maximum temperature.
C29_Step ==
    (/\ svc.pc = "execute"
     /\ svc.op = "set_temperature"
     /\ svc'.result = Ok)
    => /\ MIN_TEMPERATURE <= status_store'[svc.mac].targetTemperature
       /\ status_store'[svc.mac].targetTemperature <= MAX_TEMPERATURE

C29_StoredTargetInRange == [][C29_Step]_vars

\* C29 witness: a request for the highest temperature allowed has succeeded and
\* the record holds it
C29_Witness ==
    /\ svc.pc = "done"
    /\ svc.op = "set_temperature"
    /\ svc.result = Ok
    /\ status_store[svc.mac].present
    /\ status_store[svc.mac].targetTemperature = StrToFloat(svc.temp)
    /\ status_store[svc.mac].targetTemperature = MAX_TEMPERATURE

\* C30: a reading the sensor notifies is applied to every device registered
\* at that moment, whether the device or the sensor was registered at startup
\* or later; applying it makes no call to a BLE transport; a temperature leaves
\* the humidity of the devices as it was and a humidity the temperature.
C30_NoTransport ==
    /\ transport' = transport
    /\ device' = device
    /\ poller' = poller
    /\ cmd' = cmd

C30_Step ==
    /\ (/\ dht_sensor.present
        /\ dht_sensor'.present
        /\ dht_sensor'.latest_temperature # dht_sensor.latest_temperature)
       => /\ \A d \in Keys(registry) :
                /\ thermostats'[d].currentTemperature = dht_sensor'.latest_temperature
                /\ thermostats'[d].currentRelativeHumidity
                      = thermostats[d].currentRelativeHumidity
          /\ C30_NoTransport
    /\ (/\ dht_sensor.present
        /\ dht_sensor'.present
        /\ dht_sensor'.latest_humidity # dht_sensor.latest_humidity)
       => /\ \A d \in Keys(registry) :
                /\ thermostats'[d].currentRelativeHumidity = dht_sensor'.latest_humidity
                /\ thermostats'[d].currentTemperature
                      = thermostats[d].currentTemperature
          /\ C30_NoTransport

C30_ReadingsReachEveryDevice == [][C30_Step]_vars

\* C31: the record a successful poll builds has currentTemperature from the
\* latest temperature of the ambient sensor when there is one and from the
\* device's own reading otherwise, currentRelativeHumidity from the latest
\* humidity of the sensor when there is one and 50.0 otherwise, the target
\* state the calculator gives for the mode alone and the current state it
\* gives for mode and valve.
C31_Step ==
    (poller.pc = "status" /\ poller'.pc = "finally" /\ poller'.err = "ok")
    => LET th == thermostats'[poller.dev]
           dv == device[poller.dev]
       IN /\ th.targetHeatingCoolingState
                = calculate_heating_cooling_state(dv.mode, NoValve).int
          /\ th.currentHeatingCoolingState
                = calculate_heating_cooling_state(dv.mode, dv.valve).int
          /\ th.currentTemperature
                = IF dht_sensor.latest_temperature # NoReading
                  THEN dht_sensor.latest_temperature ELSE dv.temperature
          /\ th.currentRelativeHumidity
                = IF dht_sensor.latest_humidity # NoReading
                  THEN dht_sensor.latest_humidity ELSE DEFAULT_HUMIDITY

C31_PollSubstitutesAmbient == [][C31_Step]_vars

\* C32: a device saved and loaded back has the same id, MAC, target and
\* current state, target and current temperature, humidity, first_seen and
\* minimum and maximum temperature; failed_connection is not in the saved
\* record and is false after loading.
C32_RoundTrip ==
    /\ trip.pc \in {"saved", "loaded"}
       => \A e \in trip.file : "failed_connection" \notin DOMAIN e.data
    /\ trip.pc = "loaded"
       => /\ trip.loaded.present
          /\ trip.loaded.id = trip.id
          /\ trip.loaded.mac = trip.mac
          /\ \A f \in {"targetHeatingCoolingState", "currentHeatingCoolingState",
                        "targetTemperature", "currentTemperature",
                        "currentRelativeHumidity", "first_seen",
                        "min_temperature", "max_temperature"} :
                trip.loaded.object[f] = trip.object[f]
          /\ ~trip.loaded.object.failed_connection

\* C33: poll_status, set_temperature and set_mode issue a status request or
\* a command only after the connect of the same operation has succeeded and
\* before its disconnect; after a failed connect the operation goes to its
\* disconnect without a request or a command.
C33_Step ==
    /\ (poller.pc = "status" /\ poller'.pc # "status")
       => /\ poller.session
          /\ poller.connects = 1
          /\ poller.disconnects = 0
    /\ (poller.pc = "connect" /\ poller'.pc # "connect" /\ ~poller'.session)
       => poller'.pc = "finally"
    /\ \A t \in Threads :
          /\ cmd'[t].commands > cmd[t].commands
             => /\ cmd[t].session
                /\ cmd[t].connects = 1
                /\ cmd[t].disconnects = 0
                /\ cmd[t].commands = 0
          /\ (cmd[t].pc = "connect" /\ cmd'[t].pc # "connect" /\ ~cmd'[t].session)
             => /\ cmd'[t].pc = "finally"
                /\ cmd'[t].commands = 0

C33_RequestsInsideSession == [][C33_Step]_vars

\* a poll has read the status and a command was sent, both inside their
\* sessions, and another command has failed to connect
C33_Witness ==
    /\ poller.pc = "finally" /\ poller.err = "ok" /\ poller.session
    /\ \E t \in Threads : cmd[t].pc = "finally" /\ cmd[t].commands = 1 /\ cmd[t].session

\* C34: creating a device overwrites and drops no entry of the registry: the
\* id nextFreeId gives is the smallest positive integer that is no key, and
\* after a request that has created a device every device registered before
\* is registered under its id with its MAC, whatever the keys of the body.
C34_Step ==
    /\ nextFreeId(registry) # None
       => /\ nextFreeId(registry) \notin Keys(registry)
          /\ \A i \in DOMAIN IdNames :
                IdNames[i] \notin Keys(registry)
                => \E j \in 1..i : IdNames[j] = nextFreeId(registry)
    /\ \A t \in Threads :
          (req'[t] # req[t] /\ req'[t].op \in {"GET", "POST"} /\ ~req'[t].found
             /\ req'[t].code = 200)
          => \A i \in DOMAIN registry :
                registry[i] # Hole
                => \E j \in DOMAIN registry' : registry'[j] = registry[i]

C34_CreationKeepsEntries == [][C34_Step]_vars

\* the ids a MAC is registered under
IdsOf(mac) == {registry[i].id : i \in {j \in DOMAIN registry : registry[j].mac = mac}}

\* C35: creation is atomic under requests handled at once: when two requests
\* have each run find_thermostat, nextFreeId and the insert, two different
\* MACs are registered under two distinct ids and the same unseen MAC is
\* registered exactly once.
C35_AtomicCreation ==
    (\A r \in Requests : race[r].pc = "done")
    => /\ \A r \in Requests : Cardinality(IdsOf(race[r].mac)) = 1
       /\ race["r1"].mac # race["r2"].mac
          => IdsOf(race["r1"].mac) # IdsOf(race["r2"].mac)

\* the sessions of the operations that are past a connect and before the end
\* of their safe_disconnect
OpenPositions ==
    (IF svc.pc \in {"execute", "finally"} THEN {Session("command", svc.mac)} ELSE {})
    \cup {Session("poll", m) :
            m \in {k \in ServiceMacs : polling.tasks[k].pc \in {"status", "store", "finally"}}}

\* the sessions that are in the set at every position between a connect that
\* succeeded and the safe_disconnect
HeldPositions ==
    (IF svc.pc = "execute" THEN {Session("command", svc.mac)} ELSE {})
    \cup {Session("poll", m) :
            m \in {k \in ServiceMacs : polling.tasks[k].pc \in {"status", "store"}}}

\* C36: connected_thermostats holds exactly the sessions whose connect has
\* succeeded and whose safe_disconnect has not run: a session enters the set
\* at its successful connect and at no other step, leaves it at its
\* safe_disconnect and at no other step, is not in it after a failed connect,
\* and the set is empty when no poll and no command is in flight.
C36_Step ==
    /\ HeldPositions \subseteq connected_thermostats
    /\ connected_thermostats \subseteq OpenPositions
    /\ connected_thermostats' \subseteq OpenPositions'
    /\ (svc.pc = "connect" /\ svc'.pc = "finally")
       => Session("command", svc.mac) \notin connected_thermostats'
    /\ (svc.pc = "finally" /\ svc'.pc # "finally")
       => Session("command", svc.mac) \notin connected_thermostats'
    /\ \A m \in ServiceMacs :
          /\ (polling.tasks[m].pc = "connect" /\ polling'.tasks[m].pc = "finally")
             => Session("poll", m) \notin connected_thermostats'
          /\ (polling.tasks[m].pc = "finally" /\ polling'.tasks[m].pc # "finally")
             => Session("poll", m) \notin connected_thermostats'
    /\ \A s \in connected_thermostats' \ connected_thermostats :
          \/ s.by = "command" /\ s.mac = svc.mac /\ svc.pc = "connect"
          \/ s.by = "poll" /\ polling.tasks[s.mac].pc = "connect"
    /\ \A s \in connected_thermostats \ connected_thermostats' :
          \/ s.by = "command" /\ s.mac = svc.mac /\ svc.pc = "finally"
          \/ s.by = "poll" /\ polling.tasks[s.mac].pc = "finally"

C36_ConnectedSessions == [][C36_Step]_vars

\* C36 witness: a command holds its session, which is in the set, while a
\* poll whose connect failed is in its finally clause with no session there
C36_Witness ==
    /\ svc.pc = "execute"
    /\ Session("command", svc.mac) \in connected_thermostats
    /\ \E m \in ServiceMacs :
          /\ polling.tasks[m].pc = "finally"
          /\ polling.tasks[m].err # "ok"
          /\ polling.tasks[m].read = NoStatus
          /\ Session("poll", m) \notin connected_thermostats

\* C37: the two calculators agree whenever a valve value is given: for every
\* mode set and every valve value the value of
\* api.models.calculate_heating_cooling_state(mode, valve) is the integer code
\* of ThermostatObject.calculate_heating_cooling_state(mode, valve), and the
\* target-state expression of ThermostatService.poll_status is the code of
\* ThermostatObject.calculate_heating_cooling_state(mode) without a valve.
C37_CalculatorsAgree ==
    /\ calc.valve # NoValve
       => models_calculate_heating_cooling_state(calc.mode, calc.valve)
            = calculate_heating_cooling_state(calc.mode, calc.valve).int
    /\ PolledTargetState(calc.mode)
         = calculate_heating_cooling_state(calc.mode, NoValve).int
    /\ (calc.pc = "current" /\ calc.valve # NoValve)
       => calc.result.int = models_calculate_heating_cooling_state(calc.mode, calc.valve)
    /\ calc.pc = "target" => calc.result.int = PolledTargetState(calc.mode)

\* C37 witness: the object calculator was called for a device in manual mode
\* with a closed valve, where it answers 0 as the other calculator does
C37_Witness ==
    /\ calc.pc = "current"
    /\ calc.valve = 0
    /\ calc.mode = {"MANUAL"}
    /\ calc.result.int = 0
    /\ models_calculate_heating_cooling_state(calc.mode, calc.valve) = 0

\* C38: a POST for a registered thermostat changes only its attributes
\* targetHeatingCoolingState, targetTemperature, min_temperature and
\* max_temperature: whatever the keys of the body, the id and MAC of the
\* device, its first_seen, failed_connection, current state, current
\* temperature and humidity are as before, and no transport call is made.
C38_Step ==
    \A t \in Threads :
        (req'[t] # req[t] /\ req'[t].op = "POST" /\ req'[t].found)
        => LET id == req'[t].id
           IN /\ registry' = registry
              /\ \A f \in (DOMAIN thermostats[id]) \ allowed_attributes :
                    thermostats'[id][f] = thermostats[id][f]
              /\ \A d \in Devices \ {id} : thermostats'[d] = thermostats[d]
              /\ UNCHANGED <<device, transport, poller, cmd>>

C38_UpdateSetsAllowedOnly == [][C38_Step]_vars

\* C38 witness: a POST with targetTemperature and currentTemperature in its
\* body was answered for a device that has an ambient temperature: the target
\* is the one of the body, the current temperature is the ambient one
C38_Witness ==
    \E t \in Threads :
        /\ req[t].op = "POST" /\ req[t].found /\ req[t].code = 200
        /\ thermostats[req[t].id].targetTemperature = 180
        /\ thermostats[req[t].id].max_temperature = 250
        /\ thermostats[req[t].id].currentTemperature \in DhtTemperatures
        /\ thermostats[req[t].id].currentTemperature # 170

\* C39: get_status is read-only and reports as currentTemperature the
\* targetTemperature of a device that has received no ambient update since
\* its object was made, and the stored currentTemperature of a device that
\* has received one.
C39_Step ==
    /\ \A i \in Live(registry) :
          LET id == registry[i].id
              th == thermostats[id]
          IN /\ id \notin dht_seen
                => get_status(th).currentTemperature = th.targetTemperature
             /\ id \in dht_seen
                => get_status(th).currentTemperature = th.currentTemperature
    /\ \A t \in Threads :
          (req'[t] # req[t] /\ req'[t].op = "GET" /\ req'[t].resource = "status"
             /\ req'[t].found)
          => UNCHANGED <<thermostats, registry, persisted, dht_seen, device, transport>>

C39_StatusReadOnly == [][C39_Step]_vars

\* C39 witness: a status request was answered for a device with a target of
\* 21.5 and an ambient temperature of 19.0, which is the one reported
C39_Witness ==
    \E t \in Threads :
        /\ req[t].op = "GET" /\ req[t].resource = "status" /\ req[t].found
        /\ req[t].id \in dht_seen
        /\ thermostats[req[t].id].targetTemperature = 215
        /\ thermostats[req[t].id].currentTemperature = 190
        /\ get_status(thermostats[req[t].id]).currentTemperature = 190

\* the last read got None or a value outside (MIN_DHT_TEMP, MAX_DHT_TEMP)
C40_Invalid(raw) ==
    raw = NoRaw \/ raw <= MIN_DHT_TEMP * 10 \/ raw >= MAX_DHT_TEMP * 10

\* C40: after any sequence of reads, once a temperature was handed to the
\* callbacks, latest_temperature is nearer to the temperature handed on last
\* than DHT_TEMP_CHANGE_THRESHOLD (or equals it), and a read whose temperature
\* is None or outside (MIN_DHT_TEMP, MAX_DHT_TEMP) changes neither
\* latest_temperature nor the temperature handed on last and calls no
\* temperature callback.
C40_Step ==
    /\ dht_sensor'.last_notified # NoReading
       => Abs(dht_sensor'.latest_temperature - dht_sensor'.last_notified)
            < DHT_TEMP_CHANGE_THRESHOLD
    /\ C40_Invalid(dht_sensor'.raw_temperature)
       => /\ dht_sensor'.latest_temperature = dht_sensor.latest_temperature
          /\ dht_sensor'.last_notified = dht_sensor.last_notified
          /\ ~dht_sensor'.notified
          /\ \A d \in Devices :
                thermostats'[d].currentTemperature = thermostats[d].currentTemperature

====
